---- MODULE Spec2Model ----
(***************************************************************************)
(* Access control and quota enforcement of the UnRepo API gateway:         *)
(* key-authenticated research and chatbot requests (routes/research.ts,    *)
(* routes/chatbot.ts) and the wallet routes (routes/wallet.ts), over the   *)
(* Prisma tables user, apiKey, apiUsage and walletUser.                    *)
(*                                                                         *)
(* Every `await` of a handler is a point where another request may run, so *)
(* each action below is one database round trip or one external call       *)
(* together with the synchronous code that follows it up to the next await.*)
(* Time is in seconds.                                                     *)
(***************************************************************************)
EXTENDS Integers, Sequences, FiniteSets, Bags, TLC

\* ---------------------------------------------------------------- bounds
\* Requests started in one behaviour: of requests made one after another, of
\* requests that may overlap, and of requests against a pre-filled ledger.
MaxCalls == 7
MaxRaceCalls == 3
MaxPremiumCalls == 3
MaxLookupCalls == 3
MaxServiceCalls == 4
MaxTierCalls == 3
MaxAdminCalls == 3
MaxFrameCalls == 2
MaxListCalls == 3
\* The clock advances in steps of TickStep seconds up to MaxTime.
TickStep == 1800
MaxTime == 5400
\* A pre-filled ledger holds between ceiling - PrefillGap and ceiling events.
PrefillGap == 1

\* ------------------------------------------------------ program constants
\* research.ts:33, chatbot.ts:32: key.usageCount >= 5
FreeLimit == 5
\* research.ts:40, chatbot.ts:39: now.getTime() - 60 * 60 * 1000
Hour == 3600
\* research.ts:49: recentUsage >= 100
ResearchCeiling == 100
\* chatbot.ts:48: recentUsage >= 200
ChatCeiling == 200
\* wallet.ts:109, wallet.ts:111: researchLimit: 1, chatLimit: 5
NewResearchLimit == 1
NewChatLimit == 5

\* ------------------------------------------------------------ identifiers
UserIds == {"u1"}
KeyIds == {"k1", "k2"}
Addresses == {"a1"}
Reqs == {"r1", "r2"}

None == "none"
Never == -1

ResearchPrefix == "unrepo_research_"
ChatbotPrefix == "unrepo_chatbot_"

generateChatbotKey(type, rand) == [prefix |-> ChatbotPrefix, rand |-> rand]

\* generateApiKey: prefix + random hex; a token is the pair.
generateApiKey(type, rand) ==
    [prefix |-> IF type = "RESEARCH" THEN ResearchPrefix ELSE ChatbotPrefix,
     rand |-> rand]

\* The absent x-api-key header (falsy in `if (!apiKey)`).
NoHeader == [prefix |-> "", rand |-> ""]

startsWithAnyPrefix(token, prefix) == token.prefix # ""

\* apiKey.startsWith(prefix)
startsWith(token, prefix) == token.prefix = prefix

IssuedType(k) == IF k = "k1" THEN "RESEARCH" ELSE "CHATBOT"

\* Bearer strings a client may present: the issued ones and one of each
\* prefix that was never issued.
Tokens ==
    {generateApiKey(IssuedType(k), k) : k \in KeyIds}
        \cup {generateApiKey("RESEARCH", "x"), generateApiKey("CHATBOT", "x")}

VARIABLES
    users,        \* user table: id -> [paymentVerified, isTokenHolder]
    apiKeys,      \* apiKey table: id -> row
    apiUsage,     \* apiUsage table: a bag of rows
    walletUsers,  \* walletUser table: address -> row, for registered addresses
    now,          \* the clock
    req,          \* requests in flight: slot -> request
    calls,        \* requests started so far
    verdicts,     \* history: key id -> quota decisions of verifyApiKey, in order
    grantLog,     \* history: bag of [apiKeyId, at], one per grant of verifyApiKey
    wverdicts     \* history: address -> capability -> wallet quota decisions

vars == <<users, apiKeys, apiUsage, walletUsers, now, req, calls,
          verdicts, grantLog, wverdicts>>

\* --------------------------------------------------------------- helpers
Min(a, b) == IF a <= b THEN a ELSE b

RECURSIVE SumOver(_, _)
SumOver(S, bag) ==
    IF S = {} THEN 0
    ELSE LET e == CHOOSE x \in S : TRUE
         IN  CopiesIn(e, bag) + SumOver(S \ {e}, bag)

\* prisma.apiUsage.count({ where: { apiKeyId, createdAt: { gte: since } } })
apiUsageCount(keyId, since) ==
    SumOver({e \in BagToSet(apiUsage) : e.apiKeyId = keyId /\ e.createdAt >= since},
            apiUsage)

findFirstKeyAnyState(token, type) ==
    LET hits == {k \in DOMAIN apiKeys :
                    apiKeys[k].key = token /\ apiKeys[k].type = type}
    IN  IF hits = {} THEN None ELSE CHOOSE k \in hits : TRUE

\* prisma.apiKey.findFirst({ where: { key, type, isActive: true } })
findFirstKey(token, type) ==
    LET hits == {k \in DOMAIN apiKeys :
                    /\ apiKeys[k].key = token
                    /\ apiKeys[k].type = type
                    /\ apiKeys[k].isActive}
    IN  IF hits = {} THEN None ELSE CHOOSE k \in hits : TRUE

isPremiumPaidOnly(user) == user.paymentVerified

\* key.user.paymentVerified || key.user.isTokenHolder
isPremium(user) == user.paymentVerified \/ user.isTokenHolder

\* The endpoint's key prefix, stored type and hourly ceiling.
EndpointType(op) == IF op = "research" THEN "RESEARCH" ELSE "CHATBOT"
EndpointCeiling(op) == IF op = "research" THEN ResearchCeiling ELSE ChatCeiling
EndpointPath(op) == IF op = "research" THEN "/api/v1/research" ELSE "/api/v1/chatbot"

\* Error messages, by their leading words.
ErrKeyRequired == "API key is required in x-api-key header"
ErrCredRequired == "API key or wallet address is required"
ErrFormat == "Invalid API key format"
ErrInactive == "Invalid or inactive API key"
ErrFreeLimit == "Free tier limit reached"
ErrRateLimit == "Rate limit exceeded"
ErrWalletUnregistered == "Wallet not registered"
ErrChatLimit == "Chat limit reached"
ErrRepoRequired == "Repository URL is required"
ErrRepoFormat == "Invalid GitHub URL format"
ErrMessageRequired == "Message is required"
ErrRepoNotFound == "Repository not found"
ErrUpstream == "upstream failure"
ErrStorage == "storage failure"
ErrChatSave == "chat message storage failure"

\* error.message.includes(word), for the words the catch blocks test.
includes(msg, word) ==
    CASE word = "limit" -> msg \in {ErrFreeLimit, ErrRateLimit, ErrChatLimit}
      [] word = "Invalid" -> msg \in {ErrFormat, ErrInactive, ErrRepoFormat}
      [] word = "Wallet" -> msg \in {ErrWalletUnregistered}
      [] word = "not found" -> msg \in {ErrRepoNotFound}
      [] OTHER -> FALSE

\* The catch block of POST /api/v1/research.
researchCatch(msg) ==
    IF includes(msg, "limit") \/ includes(msg, "Invalid") THEN 429
    ELSE IF includes(msg, "not found") THEN 404
    ELSE 500

\* The catch block of POST /api/v1/chatbot.
chatbotCatch(msg) ==
    IF includes(msg, "limit") \/ includes(msg, "Invalid") \/ includes(msg, "Wallet")
    THEN 429
    ELSE 500

catchStatus(op, msg) == IF op = "research" THEN researchCatch(msg) ELSE chatbotCatch(msg)

\* ---------------------------------------------------------------- requests
NoData == [researchUsed |-> -1, researchLimit |-> -1, chatUsed |-> -1, chatLimit |-> -1]

\* No walletUser row (findUnique returned null).
NoRow ==
    [researchUsed |-> -1, researchLimit |-> -1, chatUsed |-> -1, chatLimit |-> -1,
     isVerified |-> FALSE, isTokenHolder |-> FALSE, tokenBalance |-> -1,
     signatureHash |-> None, lastUsedAt |-> Never, lastTokenCheck |-> Never]

\* A request: its inputs (op, apiKey, walletAddress, type, body, signature),
\* its position pc, what it has read (key, premium, walletUser, tokenBalance)
\* and its response (status, error, message, data, analysis).
IdleReq ==
    [op |-> "idle", pc |-> "idle", apiKey |-> NoHeader, walletAddress |-> None,
     type |-> None, body |-> None, signature |-> None,
     key |-> None, premium |-> FALSE, walletUser |-> NoRow, tokenBalance |-> -1,
     status |-> 0, error |-> None, message |-> None, data |-> NoData,
     analysis |-> None, email |-> None, rows |-> {}, valid |-> FALSE,
     lookup |-> [kind |-> None, amount |-> 0],
     messages |-> <<>>, sent |-> <<>>]

Idle(r) == req[r].op = "idle"
Quiet == \A r \in Reqs : Idle(r)

\* res.status(status).json({ error }) / res.json(...): the handler is finished.
Done(q, status, error) == [q EXCEPT !.pc = "done", !.status = status, !.error = error]

\* A thrown Error reaches the catch block of the request's handler.
Thrown(q, msg) == Done(q, catchStatus(q.op, msg), msg)

UNCHANGED_DB == UNCHANGED <<users, apiKeys, apiUsage, walletUsers>>
UNCHANGED_HIST == UNCHANGED <<verdicts, grantLog, wverdicts>>

\* ------------------------------------------------------------------ Init
\* An account holding one issued key of each kind, no wallet registered, an
\* empty ledger.  The account's tier flags are written outside this code base,
\* so they are drawn here.
NewKey(k) ==
    [key |-> generateApiKey(IssuedType(k), k), type |-> IssuedType(k), userId |-> "u1",
     isActive |-> TRUE, usageCount |-> 0, lastUsedAt |-> Never]

NoWallets == [a \in {} |-> NoData]

InitRest ==
    /\ users \in [UserIds -> [paymentVerified : BOOLEAN, isTokenHolder : BOOLEAN]]
    /\ walletUsers = NoWallets
    /\ now = 0
    /\ req = [r \in Reqs |-> IdleReq]
    /\ calls = 0
    /\ wverdicts = [a \in Addresses |-> [t \in {"research", "chat"} |-> <<>>]]

Init ==
    /\ InitRest
    /\ apiKeys = [k \in KeyIds |-> NewKey(k)]
    /\ apiUsage = EmptyBag
    /\ verdicts = [k \in KeyIds |-> <<>>]
    /\ grantLog = EmptyBag

\* ------------------------------------------------- POST /api/v1/research
\* research.ts:69-76 and verifyApiKey:11-13: header and prefix checks.  Only
\* x-api-key is read; an x-wallet-address header sent with the request is
\* kept here as what the client sent.
StartResearchWith(r, token, address, body) ==
    /\ Idle(r)
    /\ calls' = calls + 1
    /\ LET q == [IdleReq EXCEPT !.op = "research", !.apiKey = token,
                                !.walletAddress = address, !.body = body]
       IN  req' = [req EXCEPT ![r] =
                IF token = NoHeader THEN Done(q, 401, ErrKeyRequired)
                ELSE IF ~startsWith(token, ResearchPrefix) THEN Thrown(q, ErrFormat)
                ELSE [q EXCEPT !.pc = "find"]]
    /\ UNCHANGED_DB /\ UNCHANGED_HIST /\ UNCHANGED now

\* The research request that sends no wallet header.
StartResearch(r, token, body) == StartResearchWith(r, token, None, body)

StartChatbotWalletFirst(r, token, address, body) ==
    /\ Idle(r)
    /\ calls' = calls + 1
    /\ LET q == [IdleReq EXCEPT !.op = "chatbot", !.apiKey = token,
                                !.walletAddress = address, !.body = body]
       IN  req' = [req EXCEPT ![r] =
                IF token = NoHeader /\ address = None THEN Done(q, 401, ErrCredRequired)
                ELSE IF address # None THEN [q EXCEPT !.pc = "wfind"]
                ELSE IF ~startsWith(token, ChatbotPrefix) THEN Thrown(q, ErrFormat)
                ELSE [q EXCEPT !.pc = "find"]]
    /\ UNCHANGED_DB /\ UNCHANGED_HIST /\ UNCHANGED now

\* -------------------------------------------------- POST /api/v1/chatbot
\* chatbot.ts:95-123 and verifyApiKey:10-12: header checks, then the key
\* path when x-api-key is present, else the wallet path.
StartChatbot(r, token, address, body) ==
    /\ Idle(r)
    /\ calls' = calls + 1
    /\ LET q == [IdleReq EXCEPT !.op = "chatbot", !.apiKey = token,
                                !.walletAddress = address, !.body = body]
       IN  req' = [req EXCEPT ![r] =
                IF token = NoHeader /\ address = None THEN Done(q, 401, ErrCredRequired)
                ELSE IF token # NoHeader
                     THEN IF ~startsWith(token, ChatbotPrefix) THEN Thrown(q, ErrFormat)
                          ELSE [q EXCEPT !.pc = "find"]
                     ELSE [q EXCEPT !.pc = "wfind"]]
    /\ UNCHANGED_DB /\ UNCHANGED_HIST /\ UNCHANGED now

\* ------------------------------------------------------- verifyApiKey
OffByOneFreeTier(premium, usageCount) == ~premium /\ usageCount > FreeLimit

\* The free-tier test of verifyApiKey (research.ts:33, chatbot.ts:32).
FreeTierExhausted(premium, usageCount) == ~premium /\ usageCount >= FreeLimit

\* research.ts:15-35, chatbot.ts:14-34: findFirst, then the free-tier cap on
\* the row just read.
FindKey(r) ==
    /\ req[r].pc = "find"
    /\ LET q == req[r]
           k == findFirstKey(q.apiKey, EndpointType(q.op))
       IN  IF k = None
           THEN /\ req' = [req EXCEPT ![r] = Thrown(q, ErrInactive)]
                /\ UNCHANGED verdicts
           ELSE LET premium == isPremium(users[apiKeys[k].userId])
                IN  IF FreeTierExhausted(premium, apiKeys[k].usageCount)
                    THEN /\ req' = [req EXCEPT ![r] = Thrown(q, ErrFreeLimit)]
                         /\ verdicts' = [verdicts EXCEPT ![k] = Append(@, "free_limit")]
                    ELSE /\ req' = [req EXCEPT ![r] =
                                [q EXCEPT !.key = k, !.premium = premium,
                                          !.pc = IF premium THEN "count" ELSE "update"]]
                         /\ UNCHANGED verdicts
    /\ UNCHANGED_DB /\ UNCHANGED <<now, calls, grantLog, wverdicts>>

RateLimitedAbove(recentUsage, ceiling) == recentUsage > ceiling

\* The premium test of verifyApiKey (research.ts:49, chatbot.ts:48).
RateLimited(recentUsage, ceiling) == recentUsage >= ceiling

\* research.ts:38-52, chatbot.ts:37-51: the rolling one-hour count.
CountRecent(r) ==
    /\ req[r].pc = "count"
    /\ LET q == req[r]
           oneHourAgo == now - Hour
           recentUsage == apiUsageCount(q.key, oneHourAgo)
       IN  IF RateLimited(recentUsage, EndpointCeiling(q.op))
           THEN /\ req' = [req EXCEPT ![r] = Thrown(q, ErrRateLimit)]
                /\ verdicts' = [verdicts EXCEPT ![q.key] = Append(@, "rate_limit")]
           ELSE /\ req' = [req EXCEPT ![r].pc = "update"]
                /\ UNCHANGED verdicts
    /\ UNCHANGED_DB /\ UNCHANGED <<now, calls, grantLog, wverdicts>>

\* The handler's body checks that follow verifyApiKey / verifyWalletAccess
\* (research.ts:79-91, chatbot.ts:126-135).
AfterVerify(q) ==
    IF q.op = "research"
    THEN IF q.body = "missing" THEN Done(q, 400, ErrRepoRequired)
         ELSE IF q.body = "badurl" THEN Done(q, 400, ErrRepoFormat)
         ELSE [q EXCEPT !.pc = "github"]
    ELSE IF q.body = "missing" THEN Done(q, 400, ErrMessageRequired)
         ELSE [q EXCEPT !.pc = "ai"]

touchWithoutIncrement(row) == [row EXCEPT !.lastUsedAt = now]

incrementUsageTwice(row) == [row EXCEPT !.usageCount = @ + 2, !.lastUsedAt = now]

\* prisma.apiKey.update: usageCount: { increment: 1 }, lastUsedAt: new Date().
incrementUsage(row) == [row EXCEPT !.usageCount = @ + 1, !.lastUsedAt = now]

\* research.ts:55-63, chatbot.ts:54-62: the grant, then the body checks.
UpdateKey(r) ==
    /\ req[r].pc = "update"
    /\ LET q == req[r]
       IN  /\ apiKeys' = [apiKeys EXCEPT ![q.key] = incrementUsage(@)]
           /\ verdicts' = [verdicts EXCEPT ![q.key] = Append(@, "granted")]
           /\ grantLog' = grantLog (+) SetToBag({[apiKeyId |-> q.key, at |-> now]})
           /\ req' = [req EXCEPT ![r] = AfterVerify(q)]
    /\ UNCHANGED <<users, apiUsage, walletUsers, now, calls, wverdicts>>

GitHubFetchRollback(r) ==
    /\ req[r].pc = "github"
    /\ \E outcome \in {"ok", "notfound", "error"} :
         /\ req' = [req EXCEPT ![r] =
                       IF outcome = "ok" THEN [@ EXCEPT !.pc = "ai"]
                       ELSE IF outcome = "notfound" THEN Thrown(@, ErrRepoNotFound)
                       ELSE Thrown(@, ErrUpstream)]
         /\ apiKeys' = IF outcome = "ok" THEN apiKeys
                       ELSE [apiKeys EXCEPT ![req[r].key].usageCount = @ - 1]
    /\ UNCHANGED <<users, apiUsage, walletUsers>> /\ UNCHANGED_HIST
    /\ UNCHANGED <<now, calls>>

\* research.ts:96-110: the repository fetches; a failure is thrown.
GitHubFetch(r) ==
    /\ req[r].pc = "github"
    /\ \E outcome \in {"ok", "notfound", "error"} :
         req' = [req EXCEPT ![r] =
                    IF outcome = "ok" THEN [@ EXCEPT !.pc = "ai"]
                    ELSE IF outcome = "notfound" THEN Thrown(@, ErrRepoNotFound)
                    ELSE Thrown(@, ErrUpstream)]
    /\ UNCHANGED_DB /\ UNCHANGED_HIST /\ UNCHANGED <<now, calls>>

AnalysisThrows(r) ==
    /\ req[r].pc = "ai"
    /\ \E a \in {"result", "placeholder"} \cup
                (IF req[r].op = "research" THEN {"absent"} ELSE {}) :
         req' = [req EXCEPT ![r] =
                    IF a = "placeholder" THEN Thrown(@, ErrUpstream)
                    ELSE IF @.key # None THEN [@ EXCEPT !.analysis = a, !.pc = "log"]
                    ELSE Done([@ EXCEPT !.analysis = a], 200, None)]
    /\ UNCHANGED_DB /\ UNCHANGED_HIST /\ UNCHANGED <<now, calls>>

\* research.ts:113-127 (a provider failure is caught and replaced by a
\* placeholder; without provider keys analysis stays null) and
\* chatbot.ts:145-153 (chatWithRepository).  A wallet-authenticated chat has
\* no ledger entry to write (chatbot.ts:157) and responds.
Analysis(r) ==
    /\ req[r].pc = "ai"
    /\ \E a \in {"result", "placeholder"} \cup
                (IF req[r].op = "research" THEN {"absent"} ELSE {}) :
         req' = [req EXCEPT ![r] =
                    IF @.key # None THEN [@ EXCEPT !.analysis = a, !.pc = "log"]
                    ELSE Done([@ EXCEPT !.analysis = a], 200, None)]
    /\ UNCHANGED_DB /\ UNCHANGED_HIST /\ UNCHANGED <<now, calls>>

\* prisma.apiUsage.create: createdAt defaults to the time of the insert.
UsageEvent(q) ==
    [userId |-> apiKeys[q.key].userId, apiKeyId |-> q.key,
     endpoint |-> EndpointPath(q.op), createdAt |-> now]

LogUsageTwice(r) ==
    /\ req[r].pc = "log"
    /\ apiUsage' = apiUsage (+) SetToBag({UsageEvent(req[r])})
                           (+) SetToBag({UsageEvent(req[r])})
    /\ req' = [req EXCEPT ![r] = Done(@, 200, None)]
    /\ UNCHANGED <<users, apiKeys, walletUsers, now, calls>> /\ UNCHANGED_HIST

LogUsageDeferred(r) ==
    /\ req[r].pc = "log"
    /\ req' = [req EXCEPT ![r] = Done(@, 200, None)]
    /\ UNCHANGED_DB /\ UNCHANGED_HIST /\ UNCHANGED <<now, calls>>

\* research.ts:130-165, chatbot.ts:157-201: the ledger write, then the
\* response.  A failed write is thrown; on the chatbot path the chatMessage
\* write that follows the ledger write may fail as well.
LogUsage(r) ==
    /\ req[r].pc = "log"
    /\ \E outcome \in {"ok", "fail"} \cup
                      (IF req[r].op = "chatbot" THEN {"fail_after"} ELSE {}) :
         /\ apiUsage' = IF outcome = "fail" THEN apiUsage
                        ELSE apiUsage (+) SetToBag({UsageEvent(req[r])})
         /\ req' = [req EXCEPT ![r] =
                       IF outcome = "ok" THEN Done(@, 200, None)
                       ELSE IF outcome = "fail" THEN Thrown(@, ErrStorage)
                       ELSE Thrown(@, ErrChatSave)]
    /\ UNCHANGED <<users, apiKeys, walletUsers, now, calls>> /\ UNCHANGED_HIST

\* The client has the response; the slot is free again.
Finish(r) ==
    /\ req[r].pc = "done"
    /\ req' = [req EXCEPT ![r] = IdleReq]
    /\ UNCHANGED_DB /\ UNCHANGED_HIST /\ UNCHANGED <<now, calls>>

\* Time passes.
Tick ==
    /\ now + TickStep <= MaxTime
    /\ now' = now + TickStep
    /\ UNCHANGED_DB /\ UNCHANGED_HIST /\ UNCHANGED <<req, calls>>

\* ------------------------------------------------------ verifyWalletAccess
chatLimitOffByOne(walletUser) == walletUser.chatUsed > walletUser.chatLimit

\* The chat limit test of verifyWalletAccess (chatbot.ts:76).
chatLimitReached(walletUser) == walletUser.chatUsed >= walletUser.chatLimit

\* A grant is recorded with the token-holder flag of the row it was decided on.
GrantTag(walletUser) == IF walletUser.isTokenHolder THEN "holder_granted" ELSE "granted"

findUniqueWallet(address) ==
    IF address \in DOMAIN walletUsers THEN walletUsers[address] ELSE NoRow

\* chatbot.ts:67-78: findUnique, then the chat limit on the row just read.
WalletFind(r) ==
    /\ req[r].pc = "wfind"
    /\ LET q == req[r]
           walletUser == findUniqueWallet(q.walletAddress)
       IN  IF walletUser = NoRow
           THEN /\ req' = [req EXCEPT ![r] = Thrown(q, ErrWalletUnregistered)]
                /\ UNCHANGED wverdicts
           ELSE IF chatLimitReached(walletUser)
           THEN /\ req' = [req EXCEPT ![r] =
                              Thrown([q EXCEPT !.walletUser = walletUser], ErrChatLimit)]
                /\ wverdicts' = [wverdicts EXCEPT ![q.walletAddress]["chat"] =
                                    Append(@, "denied")]
           ELSE /\ req' = [req EXCEPT ![r] =
                              [q EXCEPT !.walletUser = walletUser, !.pc = "wupdate"]]
                /\ UNCHANGED wverdicts
    /\ UNCHANGED_DB /\ UNCHANGED <<now, calls, verdicts, grantLog>>

incrementUnlessHolder(row, type) ==
    IF type = "research" /\ ~row.isTokenHolder
    THEN [row EXCEPT !.researchUsed = @ + 1, !.lastUsedAt = now]
    ELSE IF type = "chat" /\ ~row.isTokenHolder
    THEN [row EXCEPT !.chatUsed = @ + 1, !.lastUsedAt = now]
    ELSE [row EXCEPT !.lastUsedAt = now]

\* prisma.walletUser.update: <type>Used: { increment: 1 }, lastUsedAt: new Date().
incrementWallet(row, type) ==
    IF type = "research"
    THEN [row EXCEPT !.researchUsed = @ + 1, !.lastUsedAt = now]
    ELSE IF type = "chat"
    THEN [row EXCEPT !.chatUsed = @ + 1, !.lastUsedAt = now]
    ELSE [row EXCEPT !.lastUsedAt = now]

\* chatbot.ts:81-89: the grant, then the body checks of the handler.
WalletUpdate(r) ==
    /\ req[r].pc = "wupdate"
    /\ LET q == req[r]
           a == q.walletAddress
       IN  /\ walletUsers' = [walletUsers EXCEPT ![a] = incrementWallet(@, "chat")]
           /\ wverdicts' = [wverdicts EXCEPT ![a]["chat"] =
                               Append(@, GrantTag(q.walletUser))]
           /\ req' = [req EXCEPT ![r] = AfterVerify(q)]
    /\ UNCHANGED <<users, apiKeys, apiUsage, now, calls, verdicts, grantLog>>

\* ------------------------------------------------- POST /wallet/register
Counters(row) ==
    [researchUsed |-> row.researchUsed, researchLimit |-> row.researchLimit,
     chatUsed |-> row.chatUsed, chatLimit |-> row.chatLimit]

MsgAlready == "Wallet already registered"
MsgRegistered == "Wallet registered successfully"
ErrRegisterFields == "Wallet address, signature, and message are required"
ErrSignature == "Invalid signature"
ErrRegister == "Failed to register wallet"

\* What a client may send as signature: one that verifies, one that does not,
\* one that bs58.decode or nacl rejects with an exception, and none.
Signatures == {"valid", "invalid", "undecodable", "missing"}

\* wallet.ts:53-59: the required fields.
StartRegister(r, address, signature) ==
    /\ Idle(r)
    /\ calls' = calls + 1
    /\ LET q == [IdleReq EXCEPT !.op = "register", !.walletAddress = address,
                                !.signature = signature]
       IN  req' = [req EXCEPT ![r] =
                IF signature = "missing" THEN Done(q, 400, ErrRegisterFields)
                ELSE [q EXCEPT !.pc = "rfind"]]
    /\ UNCHANGED_DB /\ UNCHANGED_HIST /\ UNCHANGED now

\* wallet.ts:80-100: nacl.sign.detached.verify; an exception is caught and
\* registration goes on.
signatureRejected(signature) == signature = "invalid"

RegisterFindUpsert(r) ==
    /\ req[r].pc = "rfind"
    /\ LET q == req[r]
           a == q.walletAddress
           existingWallet == findUniqueWallet(a)
       IN  /\ req' = [req EXCEPT ![r] =
                  IF existingWallet # NoRow
                  THEN Done([q EXCEPT !.walletUser = existingWallet,
                                      !.message = MsgAlready,
                                      !.data = Counters(existingWallet)], 200, None)
                  ELSE IF q.signature = "invalid" THEN Done(q, 401, ErrSignature)
                  ELSE [q EXCEPT !.pc = "rcreate"]]
           /\ walletUsers' =
                  IF existingWallet # NoRow
                  THEN [walletUsers EXCEPT ![a] =
                           [@ EXCEPT !.researchUsed = 0, !.chatUsed = 0]]
                  ELSE walletUsers
    /\ UNCHANGED <<users, apiKeys, apiUsage>> /\ UNCHANGED_HIST /\ UNCHANGED <<now, calls>>

\* wallet.ts:62-100: an existing record is returned as it is; otherwise the
\* signature is verified.
RegisterFind(r) ==
    /\ req[r].pc = "rfind"
    /\ LET q == req[r]
           existingWallet == findUniqueWallet(q.walletAddress)
       IN  req' = [req EXCEPT ![r] =
                IF existingWallet # NoRow
                THEN Done([q EXCEPT !.walletUser = existingWallet,
                                    !.message = MsgAlready,
                                    !.data = Counters(existingWallet)], 200, None)
                ELSE IF signatureRejected(q.signature) THEN Done(q, 401, ErrSignature)
                ELSE [q EXCEPT !.pc = "rcreate"]]
    /\ UNCHANGED_DB /\ UNCHANGED_HIST /\ UNCHANGED <<now, calls>>

\* wallet.ts:103-113: the row a registration creates.
NewWallet(signature) ==
    [researchUsed |-> 0, researchLimit |-> NewResearchLimit,
     chatUsed |-> 0, chatLimit |-> NewChatLimit,
     isVerified |-> TRUE, isTokenHolder |-> FALSE, tokenBalance |-> 0,
     signatureHash |-> signature, lastUsedAt |-> Never, lastTokenCheck |-> Never]

RegisterCreateOverwrite(r) ==
    /\ req[r].pc = "rcreate"
    /\ LET q == req[r]
           a == q.walletAddress
       IN  /\ walletUsers' =
                  [x \in DOMAIN walletUsers \cup {a} |->
                      IF x = a THEN NewWallet(q.signature) ELSE walletUsers[x]]
           /\ req' = [req EXCEPT ![r] =
                         [q EXCEPT !.walletUser = NewWallet(q.signature),
                                   !.pc = "rtoken"]]
    /\ UNCHANGED <<users, apiKeys, apiUsage, now, calls>> /\ UNCHANGED_HIST

\* wallet.ts:103-113, 144-147: create; walletAddress is unique, so a second
\* create for the address fails and the handler answers 500.
RegisterCreate(r) ==
    /\ req[r].pc = "rcreate"
    /\ LET q == req[r]
           a == q.walletAddress
       IN  IF a \in DOMAIN walletUsers
           THEN /\ req' = [req EXCEPT ![r] = Done(q, 500, ErrRegister)]
                /\ UNCHANGED walletUsers
           ELSE /\ walletUsers' =
                       [x \in DOMAIN walletUsers \cup {a} |->
                           IF x = a THEN NewWallet(q.signature) ELSE walletUsers[x]]
                /\ req' = [req EXCEPT ![r] =
                              [q EXCEPT !.walletUser = NewWallet(q.signature),
                                        !.pc = "rtoken"]]
    /\ UNCHANGED <<users, apiKeys, apiUsage, now, calls>> /\ UNCHANGED_HIST

\* ai.ts:386: the token threshold (UNREPO_TOKEN_THRESHOLD defaults to it).
TOKEN_THRESHOLD == 1000000

\* Balances the token oracle may report (0 also when the lookup fails).
Balances == {0, TOKEN_THRESHOLD}

\* ai.ts:504-522: verifyTokenHolder.
verifyTokenHolder(tokenBalance) ==
    [isTokenHolder |-> tokenBalance >= TOKEN_THRESHOLD, tokenBalance |-> tokenBalance]

\* wallet.ts:116-143: the token check of a new registration; a holder is
\* written to the row by a further update, anyone else is answered at once.
RegisterTokenCheck(r) ==
    /\ req[r].pc = "rtoken"
    /\ \E balance \in Balances :
         LET q == req[r]
             tokenVerification == verifyTokenHolder(balance)
         IN  req' = [req EXCEPT ![r] =
                  IF tokenVerification.isTokenHolder
                  THEN [q EXCEPT !.tokenBalance = tokenVerification.tokenBalance,
                                 !.pc = "rholder"]
                  ELSE Done([q EXCEPT !.message = MsgRegistered,
                                      !.data = Counters(q.walletUser)], 200, None)]
    /\ UNCHANGED_DB /\ UNCHANGED_HIST /\ UNCHANGED <<now, calls>>

\* wallet.ts:119-143: isTokenHolder: true, tokenBalance, lastTokenCheck.
RegisterSetHolder(r) ==
    /\ req[r].pc = "rholder"
    /\ LET q == req[r]
           a == q.walletAddress
       IN  /\ walletUsers' = [walletUsers EXCEPT ![a] =
                   [@ EXCEPT !.isTokenHolder = TRUE, !.tokenBalance = q.tokenBalance,
                             !.lastTokenCheck = now]]
           /\ req' = [req EXCEPT ![r] =
                   Done([q EXCEPT !.message = MsgRegistered,
                                  !.data = Counters(q.walletUser)], 200, None)]
    /\ UNCHANGED <<users, apiKeys, apiUsage, now, calls>> /\ UNCHANGED_HIST

\* ---------------------------------------------------- POST /wallet/usage
ErrUsageFields == "Wallet address and type are required"
ErrUsageType == "Type must be research or chat"
ErrResearchLimit == "Research limit reached"
ErrUsageChatLimit == "Chat limit reached. Hold 1M+ $UNREPO tokens for unlimited access!"

UsageTypes == {"research", "chat", "other", "missing"}

\* wallet.ts:153-161: the required fields and the type.
StartUsage(r, address, type) ==
    /\ Idle(r)
    /\ calls' = calls + 1
    /\ LET q == [IdleReq EXCEPT !.op = "usage", !.walletAddress = address,
                                !.type = type]
       IN  req' = [req EXCEPT ![r] =
                IF type = "missing" THEN Done(q, 400, ErrUsageFields)
                ELSE IF type \notin {"research", "chat"} THEN Done(q, 400, ErrUsageType)
                ELSE [q EXCEPT !.pc = "ufind"]]
    /\ UNCHANGED_DB /\ UNCHANGED_HIST /\ UNCHANGED now

\* The limit tests of POST /usage before token holders were exempted
\* (unnamed/part_001:150-165).
usageLimitReachedV1(walletUser, type) ==
    \/ type = "research" /\ walletUser.researchUsed >= walletUser.researchLimit
    \/ type = "chat" /\ walletUser.chatUsed >= walletUser.chatLimit

usageLimitCrossed(walletUser, type) ==
    /\ ~walletUser.isTokenHolder
    /\ \/ type = "research" /\ walletUser.chatUsed >= walletUser.chatLimit
       \/ type = "chat" /\ walletUser.researchUsed >= walletUser.researchLimit

\* The limit tests of POST /usage (wallet.ts:171-191).
usageLimitReached(walletUser, type) ==
    /\ ~walletUser.isTokenHolder
    /\ \/ type = "research" /\ walletUser.researchUsed >= walletUser.researchLimit
       \/ type = "chat" /\ walletUser.chatUsed >= walletUser.chatLimit

\* wallet.ts:163-191: findUnique, then the limits on the row just read.
UsageFind(r) ==
    /\ req[r].pc = "ufind"
    /\ LET q == req[r]
           a == q.walletAddress
           walletUser == findUniqueWallet(a)
       IN  IF walletUser = NoRow
           THEN /\ req' = [req EXCEPT ![r] = Done(q, 404, ErrWalletUnregistered)]
                /\ UNCHANGED wverdicts
           ELSE IF usageLimitReached(walletUser, q.type)
           THEN /\ req' = [req EXCEPT ![r] =
                       Done([q EXCEPT !.walletUser = walletUser], 403,
                            IF q.type = "research" THEN ErrResearchLimit
                            ELSE ErrUsageChatLimit)]
                /\ wverdicts' = [wverdicts EXCEPT ![a][q.type] = Append(@, "denied")]
           ELSE /\ req' = [req EXCEPT ![r] =
                       [q EXCEPT !.walletUser = walletUser, !.pc = "uupdate"]]
                /\ UNCHANGED wverdicts
    /\ UNCHANGED_DB /\ UNCHANGED <<now, calls, verdicts, grantLog>>

\* wallet.ts:193-211: the increment; the response carries the updated row.
UsageUpdate(r) ==
    /\ req[r].pc = "uupdate"
    /\ LET q == req[r]
           a == q.walletAddress
           updatedWallet == incrementWallet(walletUsers[a], q.type)
       IN  /\ walletUsers' = [walletUsers EXCEPT ![a] = updatedWallet]
           /\ wverdicts' = [wverdicts EXCEPT ![a][q.type] =
                               Append(@, GrantTag(q.walletUser))]
           /\ req' = [req EXCEPT ![r] =
                         Done([q EXCEPT !.data = Counters(updatedWallet)], 200, None)]
    /\ UNCHANGED <<users, apiKeys, apiUsage, now, calls, verdicts, grantLog>>

\* --------------------------------------------------- GET /wallet/validate
\* wallet.ts:221-225: the address is required.
StartValidate(r, address, type) ==
    /\ Idle(r)
    /\ calls' = calls + 1
    /\ LET q == [IdleReq EXCEPT !.op = "validate", !.walletAddress = address,
                                !.type = type]
       IN  req' = [req EXCEPT ![r] =
                IF address = None THEN Done(q, 400, "Wallet address is required")
                ELSE [q EXCEPT !.pc = "validate"]]
    /\ UNCHANGED_DB /\ UNCHANGED_HIST /\ UNCHANGED now

\* wallet.ts:239-244: canUse; any other type is answered true.
canUse(walletUser, type) ==
    IF type = "research" THEN walletUser.researchUsed < walletUser.researchLimit
    ELSE IF type = "chat" THEN walletUser.chatUsed < walletUser.chatLimit
    ELSE TRUE

\* wallet.ts:227-255: findUnique, then valid and the counters of the row.
Validate(r) ==
    /\ req[r].pc = "validate"
    /\ LET q == req[r]
           walletUser == findUniqueWallet(q.walletAddress)
       IN  req' = [req EXCEPT ![r] =
                IF walletUser = NoRow THEN Done(q, 200, ErrWalletUnregistered)
                ELSE Done([q EXCEPT !.walletUser = walletUser,
                                    !.valid = canUse(walletUser, q.type),
                                    !.data = Counters(walletUser)], 200, None)]
    /\ UNCHANGED_DB /\ UNCHANGED_HIST /\ UNCHANGED <<now, calls>>

\* -------------------------------------------- POST /wallet/verify-tokens
\* wallet.ts:265-277: the token oracle is asked first.
StartVerifyTokens(r, address) ==
    /\ Idle(r)
    /\ calls' = calls + 1
    /\ LET q == [IdleReq EXCEPT !.op = "verifyTokens", !.walletAddress = address]
       IN  req' = [req EXCEPT ![r] =
                IF address = None THEN Done(q, 400, "Wallet address is required")
                ELSE [q EXCEPT !.pc = "voracle"]]
    /\ UNCHANGED_DB /\ UNCHANGED_HIST /\ UNCHANGED now

\* What the balance lookup meets: HELIUS_API_KEY is not configured, the RPC
\* answers an error, the fetch or the parsing throws, the wallet has no
\* account of the mint, or the account is found; amount is what the wallet
\* holds.
Lookups ==
    {[kind |-> k, amount |-> m] :
        k \in {"unconfigured", "rpcerror", "thrown", "empty", "found"}, m \in Balances}

\* ai.ts:433-475: getToken2022Balance raises without the API key and answers
\* 0 on every other failure.
getToken2022Balance(lookup) ==
    IF lookup.kind = "unconfigured" THEN [raised |-> TRUE, value |-> 0]
    ELSE IF lookup.kind = "found" THEN [raised |-> FALSE, value |-> lookup.amount]
    ELSE [raised |-> FALSE, value |-> 0]

checkUnrepoTokenBalanceOptimistic(lookup) == lookup.amount

\* ai.ts:482-499: checkUnrepoTokenBalance catches and answers 0.
checkUnrepoTokenBalance(lookup) ==
    LET balance == getToken2022Balance(lookup)
    IN  IF balance.raised THEN 0 ELSE balance.value

\* wallet.ts:277: verifyTokenHolder answers.
VerifyOracle(r) ==
    /\ req[r].pc = "voracle"
    /\ \E lookup \in Lookups :
         req' = [req EXCEPT ![r] =
                    [@ EXCEPT !.lookup = lookup,
                              !.tokenBalance = checkUnrepoTokenBalance(lookup),
                              !.pc = "vfind"]]
    /\ UNCHANGED_DB /\ UNCHANGED_HIST /\ UNCHANGED <<now, calls>>

\* wallet.ts:280-284, 297: findUnique; an unregistered address is answered.
VerifyFind(r) ==
    /\ req[r].pc = "vfind"
    /\ LET q == req[r]
           walletUser == findUniqueWallet(q.walletAddress)
       IN  req' = [req EXCEPT ![r] =
                IF walletUser = NoRow THEN Done(q, 200, None)
                ELSE [q EXCEPT !.walletUser = walletUser, !.pc = "vupdate"]]
    /\ UNCHANGED_DB /\ UNCHANGED_HIST /\ UNCHANGED <<now, calls>>

VerifyUpdateRenew(r) ==
    /\ req[r].pc = "vupdate"
    /\ LET q == req[r]
           a == q.walletAddress
           verification == verifyTokenHolder(q.tokenBalance)
       IN  /\ walletUsers' = [walletUsers EXCEPT ![a] =
                   [@ EXCEPT !.isTokenHolder = verification.isTokenHolder,
                             !.tokenBalance = verification.tokenBalance,
                             !.lastTokenCheck = now,
                             !.researchUsed = 0,
                             !.chatUsed = 0]]
           /\ req' = [req EXCEPT ![r] = Done(q, 200, None)]
    /\ UNCHANGED <<users, apiKeys, apiUsage, now, calls>> /\ UNCHANGED_HIST

\* wallet.ts:286-293: isTokenHolder, tokenBalance, lastTokenCheck.
VerifyUpdate(r) ==
    /\ req[r].pc = "vupdate"
    /\ LET q == req[r]
           a == q.walletAddress
           verification == verifyTokenHolder(q.tokenBalance)
       IN  /\ walletUsers' = [walletUsers EXCEPT ![a] =
                   [@ EXCEPT !.isTokenHolder = verification.isTokenHolder,
                             !.tokenBalance = verification.tokenBalance,
                             !.lastTokenCheck = now]]
           /\ req' = [req EXCEPT ![r] = Done(q, 200, None)]
    /\ UNCHANGED <<users, apiKeys, apiUsage, now, calls>> /\ UNCHANGED_HIST

\* ------------------------------------------------- key-path specifications
ResearchBodies == {"ok", "missing", "badurl"}
ChatBodies == {"ok", "missing"}

KeyStartResearch(r) ==
    \E token \in Tokens \cup {NoHeader}, body \in ResearchBodies :
        StartResearch(r, token, body)

KeyStartChatbot(r) ==
    \E token \in Tokens \cup {NoHeader}, body \in ChatBodies :
        StartChatbot(r, token, None, body)

\* Key-authenticated requests made one after another, from fresh keys: a
\* request starts only when no other is in flight.
KeySeqNext ==
    \/ Quiet /\ calls < MaxCalls /\ KeyStartResearch("r1")
    \/ Quiet /\ calls < MaxCalls /\ KeyStartChatbot("r1")
    \/ \E r \in Reqs : FindKey(r)
    \/ \E r \in Reqs : CountRecent(r)
    \/ \E r \in Reqs : UpdateKey(r)
    \/ \E r \in Reqs : GitHubFetch(r)
    \/ \E r \in Reqs : Analysis(r)
    \/ \E r \in Reqs : LogUsage(r)
    \/ \E r \in Reqs : Finish(r)

KeySeqSpec == Init /\ [][KeySeqNext]_vars

\* A state reached by granting each key n calls one after another at time 0,
\* none of which got as far as its ledger write.
GrantedRow(k, n) ==
    IF n = 0 THEN NewKey(k) ELSE [NewKey(k) EXCEPT !.usageCount = n, !.lastUsedAt = 0]

GrantsAtZero(n) ==
    [e \in {[apiKeyId |-> k, at |-> 0] : k \in {x \in KeyIds : n[x] > 0}}
        |-> n[e.apiKeyId]]

InitUsed ==
    /\ InitRest
    /\ \E used \in [KeyIds -> {0, FreeLimit - 1}] :
         /\ apiKeys = [k \in KeyIds |-> GrantedRow(k, used[k])]
         /\ verdicts = [k \in KeyIds |-> [i \in 1..used[k] |-> "granted"]]
         /\ grantLog = GrantsAtZero(used)
    /\ apiUsage = EmptyBag

\* Key-authenticated requests, any of them in flight together.
KeyNext ==
    \/ \E r \in Reqs : calls < MaxRaceCalls /\ KeyStartResearch(r)
    \/ \E r \in Reqs : calls < MaxRaceCalls /\ KeyStartChatbot(r)
    \/ \E r \in Reqs : FindKey(r)
    \/ \E r \in Reqs : CountRecent(r)
    \/ \E r \in Reqs : UpdateKey(r)
    \/ \E r \in Reqs : GitHubFetch(r)
    \/ \E r \in Reqs : Analysis(r)
    \/ \E r \in Reqs : LogUsage(r)
    \/ \E r \in Reqs : Finish(r)

KeySpec == InitUsed /\ [][KeyNext]_vars

\* ------------------------------------------------- lookup specification
\* Stored keys that are active or not: isActive is a column findFirst
\* filters on and, like the tier flags, is written outside this code base.
InitStored ==
    /\ InitRest
    /\ \E active \in [KeyIds -> BOOLEAN] :
         apiKeys = [k \in KeyIds |-> [NewKey(k) EXCEPT !.isActive = active[k]]]
    /\ apiUsage = EmptyBag
    /\ verdicts = [k \in KeyIds |-> <<>>]
    /\ grantLog = EmptyBag

\* Key-authenticated requests one after another.
KeyLookupNext ==
    \/ Quiet /\ calls < MaxLookupCalls /\ KeyStartResearch("r1")
    \/ Quiet /\ calls < MaxLookupCalls /\ KeyStartChatbot("r1")
    \/ \E r \in Reqs : FindKey(r)
    \/ \E r \in Reqs : CountRecent(r)
    \/ \E r \in Reqs : UpdateKey(r)
    \/ \E r \in Reqs : GitHubFetch(r)
    \/ \E r \in Reqs : Analysis(r)
    \/ \E r \in Reqs : LogUsage(r)
    \/ \E r \in Reqs : Finish(r)

KeyLookupSpec == InitStored /\ [][KeyLookupNext]_vars

\* ------------------------------------------------ premium specification
KeyOp(k) == IF IssuedType(k) = "RESEARCH" THEN "research" ELSE "chatbot"
KeyCeiling(k) == EndpointCeiling(KeyOp(k))

\* A premium account each of whose keys has served, at time 0 and one call
\* after another, a number of complete calls at or just below its ceiling:
\* every such call was granted and wrote its ledger event.
InitPremium ==
    /\ InitRest
    /\ \A u \in UserIds : isPremium(users[u])
    /\ \E served \in [KeyIds -> 0..ChatCeiling] :
         /\ \A k \in KeyIds : served[k] \in (KeyCeiling(k) - PrefillGap)..KeyCeiling(k)
         /\ apiKeys = [k \in KeyIds |-> GrantedRow(k, served[k])]
         /\ verdicts = [k \in KeyIds |-> [i \in 1..served[k] |-> "granted"]]
         /\ grantLog = GrantsAtZero(served)
         /\ apiUsage =
               [e \in {[userId |-> apiKeys[k].userId, apiKeyId |-> k,
                        endpoint |-> EndpointPath(KeyOp(k)), createdAt |-> 0] :
                          k \in {x \in KeyIds : served[x] > 0}}
                   |-> served[e.apiKeyId]]

\* Key-authenticated requests of a premium account, one after another, while
\* time passes.
PremiumNext ==
    \/ Quiet /\ calls < MaxPremiumCalls /\ KeyStartResearch("r1")
    \/ Quiet /\ calls < MaxPremiumCalls /\ KeyStartChatbot("r1")
    \/ \E r \in Reqs : FindKey(r)
    \/ \E r \in Reqs : CountRecent(r)
    \/ \E r \in Reqs : UpdateKey(r)
    \/ \E r \in Reqs : GitHubFetch(r)
    \/ \E r \in Reqs : Analysis(r)
    \/ \E r \in Reqs : LogUsage(r)
    \/ \E r \in Reqs : Finish(r)
    \/ Tick

PremiumSpec == InitPremium /\ [][PremiumNext]_vars

\* ----------------------------------------------- wallet-path specifications
WalletStartRegister(r) ==
    \E a \in Addresses, signature \in Signatures : StartRegister(r, a, signature)

WalletStartUsage(r) ==
    \E a \in Addresses, type \in UsageTypes : StartUsage(r, a, type)

WalletStartChatbot(r) ==
    \E a \in Addresses, body \in ChatBodies : StartChatbot(r, NoHeader, a, body)

WalletStartVerifyTokens(r) ==
    \E a \in Addresses \cup {None} : StartVerifyTokens(r, a)

\* Wallet operations made one after another.
WalletSeqNext ==
    \/ Quiet /\ calls < MaxCalls /\ WalletStartRegister("r1")
    \/ Quiet /\ calls < MaxCalls /\ WalletStartUsage("r1")
    \/ Quiet /\ calls < MaxCalls /\ WalletStartChatbot("r1")
    \/ Quiet /\ calls < MaxCalls /\ WalletStartVerifyTokens("r1")
    \/ \E r \in Reqs : RegisterFind(r)
    \/ \E r \in Reqs : RegisterCreate(r)
    \/ \E r \in Reqs : RegisterTokenCheck(r)
    \/ \E r \in Reqs : RegisterSetHolder(r)
    \/ \E r \in Reqs : UsageFind(r)
    \/ \E r \in Reqs : UsageUpdate(r)
    \/ \E r \in Reqs : WalletFind(r)
    \/ \E r \in Reqs : WalletUpdate(r)
    \/ \E r \in Reqs : Analysis(r)
    \/ \E r \in Reqs : VerifyOracle(r)
    \/ \E r \in Reqs : VerifyFind(r)
    \/ \E r \in Reqs : VerifyUpdate(r)
    \/ \E r \in Reqs : Finish(r)

WalletSeqSpec == Init /\ [][WalletSeqNext]_vars

\* Wallet operations, any of them in flight together.
WalletNext ==
    \/ \E r \in Reqs : calls < MaxRaceCalls /\ WalletStartRegister(r)
    \/ \E r \in Reqs : calls < MaxRaceCalls /\ WalletStartUsage(r)
    \/ \E r \in Reqs : calls < MaxRaceCalls /\ WalletStartChatbot(r)
    \/ \E r \in Reqs : calls < MaxRaceCalls /\ WalletStartVerifyTokens(r)
    \/ \E r \in Reqs : RegisterFind(r)
    \/ \E r \in Reqs : RegisterCreate(r)
    \/ \E r \in Reqs : RegisterTokenCheck(r)
    \/ \E r \in Reqs : RegisterSetHolder(r)
    \/ \E r \in Reqs : UsageFind(r)
    \/ \E r \in Reqs : UsageUpdate(r)
    \/ \E r \in Reqs : WalletFind(r)
    \/ \E r \in Reqs : WalletUpdate(r)
    \/ \E r \in Reqs : Analysis(r)
    \/ \E r \in Reqs : VerifyOracle(r)
    \/ \E r \in Reqs : VerifyFind(r)
    \/ \E r \in Reqs : VerifyUpdate(r)
    \/ \E r \in Reqs : Finish(r)

WalletSpec == Init /\ [][WalletNext]_vars

\* ------------------------------------------------------------------ claims
FreeAccount(k) == ~isPremium(users[apiKeys[k].userId])

\* A request that presented key k's token to the endpoint of k's kind.
Presents(q, k) ==
    /\ q.apiKey = apiKeys[k].key
    /\ EndpointType(q.op) = apiKeys[k].type

\* C1: for a FREE key, usageCount never exceeds 5, also when requests for the
\* same key overlap between their read of the key and their increment.
C1_FreeCapUnderRace ==
    \A k \in DOMAIN apiKeys : FreeAccount(k) => apiKeys[k].usageCount <= FreeLimit

\* C2: requests made one after another on a fresh FREE key of either kind:
\* the first 5 quota decisions are grants and every later one is the
\* 'Free tier limit reached' denial, which is what the caller is answered.
C2_FiveThenDenied ==
    \A k \in DOMAIN apiKeys :
        FreeAccount(k) =>
            /\ \A i \in 1..Len(verdicts[k]) :
                   verdicts[k][i] = IF i <= 5 THEN "granted" ELSE "free_limit"
            /\ \A r \in Reqs :
                   (Presents(req[r], k) /\ req[r].pc \notin {"idle", "find"}) =>
                       IF Len(verdicts[k]) <= 5
                       THEN req[r].key = k /\ req[r].error # ErrFreeLimit
                       ELSE /\ req[r].pc = "done"
                            /\ req[r].error = ErrFreeLimit
                            /\ req[r].key = None

C2_Witness ==
    /\ FreeAccount("k2")
    /\ Len(verdicts["k2"]) = 7
    /\ Len(verdicts["k1"]) = 0
    /\ req["r1"].error = ErrFreeLimit

\* --------------------------------------------------- tier specification
\* The account's tier flags are written by account management (payment and
\* token verification of the account), which is no part of these sources:
\* any flag may change at any time.
TierChange(u, paymentVerified, isTokenHolder) ==
    /\ users[u] # [paymentVerified |-> paymentVerified, isTokenHolder |-> isTokenHolder]
    /\ users' = [users EXCEPT ![u] = [paymentVerified |-> paymentVerified,
                                      isTokenHolder |-> isTokenHolder]]
    /\ UNCHANGED <<apiKeys, apiUsage, walletUsers, now, req, calls>> /\ UNCHANGED_HIST

\* Keys that were granted, one call after another, one call less than the
\* free cap or all of it.
InitTier ==
    /\ InitRest
    /\ \E used \in [KeyIds -> {FreeLimit - 1, FreeLimit}] :
         /\ apiKeys = [k \in KeyIds |-> GrantedRow(k, used[k])]
         /\ verdicts = [k \in KeyIds |-> [i \in 1..used[k] |-> "granted"]]
         /\ grantLog = GrantsAtZero(used)
    /\ apiUsage = EmptyBag

\* Key-authenticated requests one after another while the tier changes.
TierNext ==
    \/ Quiet /\ calls < MaxTierCalls /\ KeyStartResearch("r1")
    \/ Quiet /\ calls < MaxTierCalls /\ KeyStartChatbot("r1")
    \/ \E r \in Reqs : FindKey(r)
    \/ \E r \in Reqs : CountRecent(r)
    \/ \E r \in Reqs : UpdateKey(r)
    \/ \E r \in Reqs : GitHubFetch(r)
    \/ \E r \in Reqs : Analysis(r)
    \/ \E r \in Reqs : LogUsage(r)
    \/ \E r \in Reqs : Finish(r)
    \/ \E u \in UserIds, pv \in BOOLEAN, th \in BOOLEAN : TierChange(u, pv, th)

TierSpec == InitTier /\ [][TierNext]_vars

\* ------------------------------------------------------- key management
\* test-helius.ts:306-511.  An account is found by its email, which is unique,
\* so the model names an account by it.  The request without an email falls
\* back to the test address (test-helius.ts:319).
DefaultEmail == "u2"
Emails == {"u1", "u2"}

\* Row ids of the keys created by the service, in the order of the calls.
FreshIds == <<"g1", "g2", "g3", "g4", "g5", "g6">>

\* test-helius.ts:308-319: the body checks of POST /api/keys/generate.
StartGenerate(r, type, name, email) ==
    /\ Idle(r)
    /\ calls' = calls + 1
    /\ LET q == [IdleReq EXCEPT !.op = "generate", !.type = type, !.body = name,
                                !.email = IF email = None THEN DefaultEmail ELSE email]
       IN  req' = [req EXCEPT ![r] =
                IF type \notin {"RESEARCH", "CHATBOT"}
                THEN Done(q, 400, "Invalid API key type. Must be RESEARCH or CHATBOT")
                ELSE IF name = "missing" THEN Done(q, 400, "API name is required")
                ELSE [q EXCEPT !.pc = "guser"]]
    /\ UNCHANGED_DB /\ UNCHANGED_HIST /\ UNCHANGED now

\* test-helius.ts:322-339: the account is read, and created when there is
\* none.  user.create sets no tier flag; the flags of the new row are the
\* column defaults of a schema that is not part of the sources, so they are
\* drawn.
GenerateUser(r) ==
    /\ req[r].pc = "guser"
    /\ LET email == req[r].email
       IN  IF email \in DOMAIN users
           THEN users' = users
           ELSE \E pv \in BOOLEAN, th \in BOOLEAN :
                  users' = [u \in DOMAIN users \cup {email} |->
                               IF u = email
                               THEN [paymentVerified |-> pv, isTokenHolder |-> th]
                               ELSE users[u]]
    /\ req' = [req EXCEPT ![r].pc = "gcreate"]
    /\ UNCHANGED <<apiKeys, apiUsage, walletUsers, now, calls>> /\ UNCHANGED_HIST

\* test-helius.ts:342-369: the token is generated for the requested type, the
\* row is stored active, and the response carries the stored token.
GenerateCreate(r) ==
    /\ req[r].pc = "gcreate"
    /\ LET q == req[r]
           id == FreshIds[calls]
           newKey == [key |-> generateApiKey(q.type, id), type |-> q.type,
                      userId |-> q.email, isActive |-> TRUE, usageCount |-> 0,
                      lastUsedAt |-> Never]
       IN  /\ apiKeys' = [k \in DOMAIN apiKeys \cup {id} |->
                             IF k = id THEN newKey ELSE apiKeys[k]]
           /\ verdicts' = [k \in DOMAIN verdicts \cup {id} |->
                              IF k = id THEN <<>> ELSE verdicts[k]]
           /\ req' = [req EXCEPT ![r] =
                        Done([q EXCEPT !.message = "API key created successfully",
                                       !.rows = {[key |-> newKey.key, type |-> newKey.type,
                                                  isActive |-> newKey.isActive,
                                                  usageCount |-> newKey.usageCount]}],
                             200, None)]
    /\ UNCHANGED <<users, apiUsage, walletUsers, now, calls, grantLog, wverdicts>>

\* test-helius.ts:379-383: GET /api/keys needs the email.
StartList(r, email) ==
    /\ Idle(r)
    /\ calls' = calls + 1
    /\ LET q == [IdleReq EXCEPT !.op = "list", !.email = email]
       IN  req' = [req EXCEPT ![r] =
                IF email = None THEN Done(q, 400, "Email parameter required")
                ELSE [q EXCEPT !.pc = "list"]]
    /\ UNCHANGED_DB /\ UNCHANGED_HIST /\ UNCHANGED now

\* test-helius.ts:397-403, 451-456: findMany({ where: { userId, isActive: true } })
activeKeysOf(email) ==
    {k \in DOMAIN apiKeys : apiKeys[k].userId = email /\ apiKeys[k].isActive}

keysWithTierUnclamped(k) ==
    LET premium == isPremium(users[apiKeys[k].userId])
    IN  [id |-> k, key |-> apiKeys[k].key, type |-> apiKeys[k].type,
         usageCount |-> apiKeys[k].usageCount, isActive |-> apiKeys[k].isActive,
         isPremium |-> premium,
         remainingCalls |-> IF premium THEN -1 ELSE FreeLimit - apiKeys[k].usageCount]

\* test-helius.ts:405-417: one element of the listing; null is -1.
keysWithTier(k) ==
    LET premium == isPremium(users[apiKeys[k].userId])
        left == FreeLimit - apiKeys[k].usageCount
    IN  [id |-> k, key |-> apiKeys[k].key, type |-> apiKeys[k].type,
         usageCount |-> apiKeys[k].usageCount, isActive |-> apiKeys[k].isActive,
         isPremium |-> premium,
         remainingCalls |-> IF premium THEN -1 ELSE IF left > 0 THEN left ELSE 0]

\* test-helius.ts:386-422: the account's active keys, each with its token.
ListKeys(r) ==
    /\ req[r].pc = "list"
    /\ LET q == req[r]
       IN  req' = [req EXCEPT ![r] =
                IF q.email \notin DOMAIN users THEN Done(q, 200, None)
                ELSE Done([q EXCEPT !.rows = {keysWithTier(k) : k \in activeKeysOf(q.email)}],
                          200, None)]
    /\ UNCHANGED_DB /\ UNCHANGED_HIST /\ UNCHANGED <<now, calls>>

\* test-helius.ts:433-437: GET /api/keys/usage needs the email.
StartKeyUsage(r, email) ==
    /\ Idle(r)
    /\ calls' = calls + 1
    /\ LET q == [IdleReq EXCEPT !.op = "keyusage", !.email = email]
       IN  req' = [req EXCEPT ![r] =
                IF email = None THEN Done(q, 400, "Email parameter required")
                ELSE [q EXCEPT !.pc = "keyusage"]]
    /\ UNCHANGED_DB /\ UNCHANGED_HIST /\ UNCHANGED now

\* test-helius.ts:440-467: type, usageCount and lastUsed of the active keys.
KeyUsage(r) ==
    /\ req[r].pc = "keyusage"
    /\ LET q == req[r]
       IN  req' = [req EXCEPT ![r] =
                IF q.email \notin DOMAIN users THEN Done(q, 200, None)
                ELSE Done([q EXCEPT !.rows =
                              {[type |-> apiKeys[k].type,
                                usageCount |-> apiKeys[k].usageCount,
                                lastUsed |-> apiKeys[k].lastUsedAt] :
                                   k \in activeKeysOf(q.email)}],
                          200, None)]
    /\ UNCHANGED_DB /\ UNCHANGED_HIST /\ UNCHANGED <<now, calls>>

\* test-helius.ts:476-481: DELETE /api/keys/:keyId; the route always has the id.
StartDelete(r, keyId, email) ==
    /\ Idle(r)
    /\ calls' = calls + 1
    /\ req' = [req EXCEPT ![r] =
                 [IdleReq EXCEPT !.op = "delete", !.key = keyId, !.email = email,
                                 !.pc = "dfind"]]
    /\ UNCHANGED_DB /\ UNCHANGED_HIST /\ UNCHANGED now

\* test-helius.ts:484-496: the key is read; the owner is compared only when
\* the request names an email.
DeleteFind(r) ==
    /\ req[r].pc = "dfind"
    /\ LET q == req[r]
       IN  req' = [req EXCEPT ![r] =
                IF q.key \notin DOMAIN apiKeys THEN Done(q, 404, "API key not found")
                ELSE IF q.email # None /\ apiKeys[q.key].userId # q.email
                THEN Done(q, 403, "Unauthorized to delete this key")
                ELSE [q EXCEPT !.pc = "delete"]]
    /\ UNCHANGED_DB /\ UNCHANGED_HIST /\ UNCHANGED <<now, calls>>

deleteNothing(keyId) == {}

deleteWhereUser(keyId) ==
    {k \in DOMAIN apiKeys : apiKeys[k].userId = apiKeys[keyId].userId}

\* prisma.apiKey.delete({ where: { id: keyId } }): the rows removed.
deleteWhereId(keyId) == {keyId}

\* test-helius.ts:499-506: the row is removed.  What happens to the ledger
\* rows of the key is decided by the schema, which is not part of the
\* sources: they go with the key, they stay, or they make the delete fail.
DeleteKey(r) ==
    /\ req[r].pc = "delete"
    /\ LET q == req[r]
           gone == deleteWhereId(q.key)
           events == {e \in BagToSet(apiUsage) : e.apiKeyId \in gone}
           kept == BagToSet(apiUsage) \ events
       IN  \E onDelete \in IF events = {} THEN {"none"}
                           ELSE {"cascade", "keep", "restrict"} :
             IF onDelete = "restrict"
             THEN /\ req' = [req EXCEPT ![r] = Done(q, 500, "Failed to delete API key")]
                  /\ UNCHANGED <<apiKeys, apiUsage>>
             ELSE /\ apiKeys' = [k \in DOMAIN apiKeys \ gone |-> apiKeys[k]]
                  /\ apiUsage' = IF onDelete = "cascade"
                                 THEN [e \in kept |-> apiUsage[e]]
                                 ELSE apiUsage
                  /\ req' = [req EXCEPT ![r] =
                               Done([q EXCEPT !.message = "API key deleted successfully"], 200, None)]
    /\ UNCHANGED <<users, walletUsers, now, calls>> /\ UNCHANGED_HIST

\* The tokens a client presents here are those of the stored keys and of the
\* removed ones, with a body that passes the checks.
StoredTokens == {apiKeys[k].key : k \in DOMAIN apiKeys}

\* The tokens of the keys that were stored once and are no longer.
DeletedTokens ==
    {generateApiKey(type, k) : type \in {"RESEARCH", "CHATBOT"},
                               k \in DOMAIN verdicts \ DOMAIN apiKeys}

\* Key management and key-authenticated requests, one call after another.
AdminNext ==
    \/ /\ Quiet /\ calls < MaxAdminCalls
       /\ \E token \in StoredTokens \cup DeletedTokens \cup {NoHeader} :
             StartResearch("r1", token, "ok")
    \/ /\ Quiet /\ calls < MaxAdminCalls
       /\ \E token \in StoredTokens \cup DeletedTokens \cup {NoHeader} :
             StartChatbot("r1", token, None, "ok")
    \/ /\ Quiet /\ calls < MaxAdminCalls
       /\ \E type \in {"RESEARCH", "CHATBOT", "OTHER"}, name \in {"ok", "missing"},
             email \in Emails \cup {None} : StartGenerate("r1", type, name, email)
    \/ /\ Quiet /\ calls < MaxAdminCalls
       /\ \E email \in Emails \cup {None} : StartList("r1", email)
    \/ /\ Quiet /\ calls < MaxAdminCalls
       /\ \E email \in Emails \cup {None} : StartKeyUsage("r1", email)
    \/ /\ Quiet /\ calls < MaxAdminCalls
       /\ \E keyId \in DOMAIN verdicts \cup {"g6"}, email \in Emails \cup {None} :
             StartDelete("r1", keyId, email)
    \/ \E r \in Reqs : GenerateUser(r)
    \/ \E r \in Reqs : GenerateCreate(r)
    \/ \E r \in Reqs : ListKeys(r)
    \/ \E r \in Reqs : KeyUsage(r)
    \/ \E r \in Reqs : DeleteFind(r)
    \/ \E r \in Reqs : DeleteKey(r)
    \/ \E r \in Reqs : FindKey(r)
    \/ \E r \in Reqs : CountRecent(r)
    \/ \E r \in Reqs : UpdateKey(r)
    \/ \E r \in Reqs : GitHubFetch(r)
    \/ \E r \in Reqs : Analysis(r)
    \/ \E r \in Reqs : LogUsage(r)
    \/ \E r \in Reqs : Finish(r)

AdminSpec == Init /\ [][AdminNext]_vars

\* The key listing next to key-authenticated requests that may run together,
\* on keys at the free cap or one call below it.
ListNext ==
    \/ \E r \in Reqs : calls < MaxListCalls /\ KeyStartResearch(r)
    \/ \E r \in Reqs : calls < MaxListCalls /\ KeyStartChatbot(r)
    \/ \E r \in Reqs, email \in Emails \cup {None} :
          calls < MaxListCalls /\ StartList(r, email)
    \/ \E r \in Reqs : ListKeys(r)
    \/ \E r \in Reqs : FindKey(r)
    \/ \E r \in Reqs : CountRecent(r)
    \/ \E r \in Reqs : UpdateKey(r)
    \/ \E r \in Reqs : GitHubFetch(r)
    \/ \E r \in Reqs : Analysis(r)
    \/ \E r \in Reqs : LogUsage(r)
    \/ \E r \in Reqs : Finish(r)

ListSpec == InitTier /\ [][ListNext]_vars

\* ------------------------------------------- /analyze (unnamed/part_000)
\* part_000:169-177, 205-207: the POST route checks owner and repo; the GET
\* route takes them from the path.  Neither reads a credential.
StartAnalyze(r, method, fields) ==
    /\ Idle(r)
    /\ calls' = calls + 1
    /\ LET q == [IdleReq EXCEPT !.op = "analyze", !.type = method, !.body = fields]
       IN  req' = [req EXCEPT ![r] =
                IF method = "POST" /\ fields = "missing"
                THEN Done(q, 400, "Missing required fields: owner and repo")
                ELSE [q EXCEPT !.pc = "afetch"]]
    /\ UNCHANGED_DB /\ UNCHANGED_HIST /\ UNCHANGED now

\* part_000:15-65, 182, 195-200: fetchRepoData; a failure is thrown and
\* answered 500.
AnalyzeFetch(r) ==
    /\ req[r].pc = "afetch"
    /\ \E outcome \in {"ok", "error"} :
         req' = [req EXCEPT ![r] =
                    IF outcome = "ok" THEN [@ EXCEPT !.pc = "amodel"]
                    ELSE Done(@, 500, "Failed to fetch repository data from GitHub")]
    /\ UNCHANGED_DB /\ UNCHANGED_HIST /\ UNCHANGED <<now, calls>>

\* part_000:68-166, 185-193: analyzeWithAI calls the model; a failure is
\* thrown and answered 500.
AnalyzeAI(r) ==
    /\ req[r].pc = "amodel"
    /\ \E outcome \in {"ok", "error"} :
         req' = [req EXCEPT ![r] =
                    IF outcome = "ok" THEN Done([@ EXCEPT !.analysis = "result"], 200, None)
                    ELSE Done(@, 500, "Failed to analyze repository with AI")]
    /\ UNCHANGED_DB /\ UNCHANGED_HIST /\ UNCHANGED <<now, calls>>

\* --------------------------------------------- quota decisions at the limit
\* A wallet that registered and was granted, one call after another, the
\* given numbers of chat and research calls at time 0.
UsedWallet(chats, researches) ==
    [NewWallet("valid") EXCEPT !.chatUsed = chats, !.researchUsed = researches,
                               !.lastUsedAt = 0]

\* Keys that have served, one complete call after another, all of their
\* quota or one call less (the free cap of a free account, the hourly
\* ceiling of a premium one), and a wallet that is unregistered or has used
\* its quota likewise.
InitFrame ==
    /\ users \in [UserIds -> [paymentVerified : BOOLEAN, isTokenHolder : BOOLEAN]]
    /\ now = 0
    /\ req = [r \in Reqs |-> IdleReq]
    /\ calls = 0
    /\ \E served \in [KeyIds -> 0..ChatCeiling] :
         /\ \A k \in KeyIds :
              LET cap == IF isPremium(users["u1"]) THEN KeyCeiling(k) ELSE FreeLimit
              IN  served[k] \in (cap - PrefillGap)..cap
         /\ apiKeys = [k \in KeyIds |-> GrantedRow(k, served[k])]
         /\ verdicts = [k \in KeyIds |-> [i \in 1..served[k] |-> "granted"]]
         /\ grantLog = GrantsAtZero(served)
         /\ apiUsage =
               [e \in {[userId |-> apiKeys[k].userId, apiKeyId |-> k,
                        endpoint |-> EndpointPath(KeyOp(k)), createdAt |-> 0] :
                          k \in {x \in KeyIds : served[x] > 0}}
                   |-> served[e.apiKeyId]]
    /\ \/ /\ walletUsers = NoWallets
          /\ wverdicts = [a \in Addresses |-> [t \in {"research", "chat"} |-> <<>>]]
       \/ \E chats \in {n \in 0..NewChatLimit : n >= NewChatLimit - PrefillGap},
             researches \in {n \in 0..NewResearchLimit : n >= NewResearchLimit - PrefillGap} :
            /\ walletUsers = [a \in Addresses |-> UsedWallet(chats, researches)]
            /\ wverdicts = [a \in Addresses |->
                              [t \in {"research", "chat"} |->
                                 [i \in 1..(IF t = "chat" THEN chats ELSE researches)
                                     |-> "granted"]]]

\* Key-authenticated and wallet-authenticated calls and wallet usage, one
\* after another, from there.
FrameNext ==
    \/ Quiet /\ calls < MaxFrameCalls /\ KeyStartResearch("r1")
    \/ Quiet /\ calls < MaxFrameCalls /\ KeyStartChatbot("r1")
    \/ Quiet /\ calls < MaxFrameCalls /\ WalletStartRegister("r1")
    \/ Quiet /\ calls < MaxFrameCalls /\ WalletStartUsage("r1")
    \/ Quiet /\ calls < MaxFrameCalls /\ WalletStartChatbot("r1")
    \/ \E r \in Reqs : FindKey(r)
    \/ \E r \in Reqs : CountRecent(r)
    \/ \E r \in Reqs : UpdateKey(r)
    \/ \E r \in Reqs : GitHubFetch(r)
    \/ \E r \in Reqs : Analysis(r)
    \/ \E r \in Reqs : LogUsage(r)
    \/ \E r \in Reqs : RegisterFind(r)
    \/ \E r \in Reqs : RegisterCreate(r)
    \/ \E r \in Reqs : RegisterTokenCheck(r)
    \/ \E r \in Reqs : RegisterSetHolder(r)
    \/ \E r \in Reqs : UsageFind(r)
    \/ \E r \in Reqs : UsageUpdate(r)
    \/ \E r \in Reqs : WalletFind(r)
    \/ \E r \in Reqs : WalletUpdate(r)
    \/ \E r \in Reqs : Finish(r)

FrameSpec == InitFrame /\ [][FrameNext]_vars

\* ----------------------------------------------- service, one at a time
\* Every operation of the service, key path and wallet path, one request
\* after another.
ServiceSeqNext ==
    \/ Quiet /\ calls < MaxServiceCalls /\ KeyStartResearch("r1")
    \/ Quiet /\ calls < MaxServiceCalls /\ KeyStartChatbot("r1")
    \/ Quiet /\ calls < MaxServiceCalls /\ WalletStartRegister("r1")
    \/ Quiet /\ calls < MaxServiceCalls /\ WalletStartUsage("r1")
    \/ Quiet /\ calls < MaxServiceCalls /\ WalletStartChatbot("r1")
    \/ Quiet /\ calls < MaxServiceCalls /\ WalletStartVerifyTokens("r1")
    \/ /\ Quiet /\ calls < MaxServiceCalls
       /\ \E address \in Addresses, body \in ResearchBodies :
             StartResearchWith("r1", NoHeader, address, body)
    \/ /\ Quiet /\ calls < MaxServiceCalls
       /\ \E method \in {"POST", "GET"}, fields \in {"ok", "missing"} :
             StartAnalyze("r1", method, fields)
    \/ /\ Quiet /\ calls < MaxServiceCalls
       /\ \E token \in Tokens, address \in Addresses, body \in ChatBodies :
             StartChatbot("r1", token, address, body)
    \/ /\ Quiet /\ calls < MaxServiceCalls
       /\ \E address \in Addresses \cup {None}, type \in UsageTypes :
             StartValidate("r1", address, type)
    \/ \E r \in Reqs : Validate(r)
    \/ \E r \in Reqs : AnalyzeFetch(r)
    \/ \E r \in Reqs : AnalyzeAI(r)
    \/ \E r \in Reqs : FindKey(r)
    \/ \E r \in Reqs : CountRecent(r)
    \/ \E r \in Reqs : UpdateKey(r)
    \/ \E r \in Reqs : GitHubFetch(r)
    \/ \E r \in Reqs : Analysis(r)
    \/ \E r \in Reqs : LogUsage(r)
    \/ \E r \in Reqs : RegisterFind(r)
    \/ \E r \in Reqs : RegisterCreate(r)
    \/ \E r \in Reqs : RegisterTokenCheck(r)
    \/ \E r \in Reqs : RegisterSetHolder(r)
    \/ \E r \in Reqs : UsageFind(r)
    \/ \E r \in Reqs : UsageUpdate(r)
    \/ \E r \in Reqs : WalletFind(r)
    \/ \E r \in Reqs : WalletUpdate(r)
    \/ \E r \in Reqs : VerifyOracle(r)
    \/ \E r \in Reqs : VerifyFind(r)
    \/ \E r \in Reqs : VerifyUpdate(r)
    \/ \E r \in Reqs : Finish(r)

ServiceSeqSpec == Init /\ [][ServiceSeqNext]_vars

\* ------------------------------------------------------ the whole service
\* Every operation of the service, any of them in flight together, while
\* time passes.
Next == KeyNext \/ WalletNext \/ Tick

Spec == Init /\ [][Next]_vars

\* -- wallet claims
CountOf(seq, v) == Cardinality({i \in 1..Len(seq) : seq[i] = v})

\* Calls of capability t granted to wallet a, as a token holder or not.
Grants(a, t) ==
    CountOf(wverdicts[a][t], "granted") + CountOf(wverdicts[a][t], "holder_granted")

\* No call was granted to wallet a while its row said token holder.
NoHolderGrant(a) ==
    \A t \in {"research", "chat"} : CountOf(wverdicts[a][t], "holder_granted") = 0

WalletPath(q) == q.op = "chatbot" /\ q.apiKey = NoHeader /\ q.walletAddress # None

\* C3: for a wallet that is not a token holder the limit check and the
\* increment are atomic: researchUsed never exceeds researchLimit and
\* chatUsed never exceeds chatLimit, also when requests overlap.
C3_WalletCapUnderRace ==
    \A a \in DOMAIN walletUsers :
        (~walletUsers[a].isTokenHolder /\ NoHolderGrant(a)) =>
            /\ walletUsers[a].researchUsed <= walletUsers[a].researchLimit
            /\ walletUsers[a].chatUsed <= walletUsers[a].chatLimit

\* C4: a wallet whose row has isTokenHolder = true is never denied by a
\* wallet quota decision, on POST /wallet/usage and on the chatbot wallet path.
C4_HolderAlwaysAllowed ==
    \A r \in Reqs :
        LET q == req[r]
        IN  (/\ q.pc = "done"
             /\ q.op = "usage" \/ WalletPath(q)
             /\ q.walletUser.isTokenHolder) =>
                q.error \notin {ErrResearchLimit, ErrUsageChatLimit, ErrChatLimit}

\* C5 as claimed: a granted call by a token-holder wallet performs no
\* increment, so each counter counts the calls granted to a non-holder only.
C5_HolderGrantNotCounted ==
    \A a \in DOMAIN walletUsers :
        /\ walletUsers[a].researchUsed = CountOf(wverdicts[a]["research"], "granted")
        /\ walletUsers[a].chatUsed = CountOf(wverdicts[a]["chat"], "granted")

\* C5 as amended: every granted call, also one by a token-holder wallet,
\* increments the counter of its capability by exactly 1 and leaves the other
\* counter and both limits as they were.
C5_HolderGrantCounted ==
    \A a \in DOMAIN walletUsers :
        /\ walletUsers[a].researchUsed = Grants(a, "research")
        /\ walletUsers[a].chatUsed = Grants(a, "chat")
        /\ walletUsers[a].researchLimit = NewResearchLimit
        /\ walletUsers[a].chatLimit = NewChatLimit

C5_Witness ==
    \E a \in DOMAIN walletUsers :
        /\ CountOf(wverdicts[a]["research"], "holder_granted") >= 2
        /\ CountOf(wverdicts[a]["chat"], "holder_granted") >= 1
        /\ walletUsers[a].researchUsed > walletUsers[a].researchLimit
        /\ \E r \in Reqs :
             /\ req[r].op = "usage" /\ req[r].pc = "done" /\ req[r].status = 200
             /\ req[r].walletUser.isTokenHolder

\* The row after one charge of capability t against row w.
Charged(w, t) ==
    IF t = "research" THEN [w EXCEPT !.researchUsed = @ + 1, !.lastUsedAt = now]
    ELSE [w EXCEPT !.chatUsed = @ + 1, !.lastUsedAt = now]

\* C6: the two wallet counters are independent.  A research call is denied
\* iff the row is no token holder and researchUsed >= researchLimit, a chat
\* call iff the same holds of chatUsed and chatLimit; a charge changes the
\* counter of its capability and no other counter or limit; and the limit
\* tests give the same answer whatever the other capability's counter and
\* limit are.
C6_CountersIndependent ==
    /\ \A r \in Reqs :
         LET q == req[r]
             w == q.walletUser
             a == q.walletAddress
         IN  /\ (q.op = "usage" /\ q.pc = "done" /\ q.status \in {200, 403}) =>
                    /\ q.type = "research" =>
                          (q.status = 403 <=>
                              ~w.isTokenHolder /\ w.researchUsed >= w.researchLimit)
                    /\ q.type = "chat" =>
                          (q.status = 403 <=>
                              ~w.isTokenHolder /\ w.chatUsed >= w.chatLimit)
                    /\ q.status = 200 => walletUsers[a] = Charged(w, q.type)
                    /\ q.status = 403 => walletUsers[a] = w
             /\ (WalletPath(q) /\ q.pc \in {"ai", "done"} /\ w # NoRow) =>
                    /\ q.error = ErrChatLimit <=> w.chatUsed >= w.chatLimit
                    /\ q.error = ErrChatLimit => walletUsers[a] = w
                    /\ q.error # ErrChatLimit => walletUsers[a] = Charged(w, "chat")
    /\ \A a \in DOMAIN walletUsers, used \in 0..MaxCalls, limit \in 0..MaxCalls :
         LET w == walletUsers[a]
             otherChat == [w EXCEPT !.chatUsed = used, !.chatLimit = limit]
             otherResearch == [w EXCEPT !.researchUsed = used, !.researchLimit = limit]
         IN  /\ usageLimitReached(otherChat, "research") = usageLimitReached(w, "research")
             /\ usageLimitReached(otherResearch, "chat") = usageLimitReached(w, "chat")
             /\ usageLimitReachedV1(otherChat, "research")
                    = usageLimitReachedV1(w, "research")
             /\ usageLimitReachedV1(otherResearch, "chat") = usageLimitReachedV1(w, "chat")
             /\ chatLimitReached(otherResearch) = chatLimitReached(w)

\* Chat is exhausted and a research call is still granted.
C6_Witness ==
    \E r \in Reqs :
        /\ req[r].op = "usage" /\ req[r].pc = "done" /\ req[r].status = 200
        /\ req[r].type = "research"
        /\ ~req[r].walletUser.isTokenHolder
        /\ req[r].walletUser.chatUsed >= req[r].walletUser.chatLimit

\* C7: a new wallet starts at researchUsed 0 of 1 and chatUsed 0 of 5, and
\* while it is no token holder and calls are made one after another exactly
\* 1 research call and exactly 5 chat calls are granted, each later one denied.
C7_NewWalletQuota ==
    /\ \A r \in Reqs :
         (req[r].op = "register" /\ req[r].message = MsgRegistered) =>
             req[r].data = [researchUsed |-> 0, researchLimit |-> 1,
                            chatUsed |-> 0, chatLimit |-> 5]
    /\ \A a \in DOMAIN walletUsers :
         /\ walletUsers[a].researchLimit = 1
         /\ walletUsers[a].chatLimit = 5
         /\ NoHolderGrant(a) =>
              /\ \A i \in 1..Len(wverdicts[a]["research"]) :
                     wverdicts[a]["research"][i] = IF i <= 1 THEN "granted" ELSE "denied"
              /\ \A i \in 1..Len(wverdicts[a]["chat"]) :
                     wverdicts[a]["chat"][i] = IF i <= 5 THEN "granted" ELSE "denied"
              /\ walletUsers[a].researchUsed = Min(1, Len(wverdicts[a]["research"]))
              /\ walletUsers[a].chatUsed = Min(5, Len(wverdicts[a]["chat"]))

\* The sixth chat call of a wallet that never was a token holder is denied
\* on the chatbot endpoint.
C7_Witness ==
    \E r \in Reqs :
        /\ WalletPath(req[r]) /\ req[r].error = ErrChatLimit
        /\ ~req[r].walletUser.isTokenHolder
        /\ NoHolderGrant(req[r].walletAddress)
        /\ Len(wverdicts[req[r].walletAddress]["chat"]) = 6

\* C10: registering an address that has a wallet record answers with that
\* record's counters and limits as they are and changes no field of it,
\* whatever the signature and however many calls were charged before.
C10_RegisterIdempotent ==
    \A r \in Reqs :
        LET q == req[r]
            a == q.walletAddress
        IN  (q.op = "register" /\ q.pc = "done" /\ q.message = MsgAlready) =>
                /\ q.status = 200
                /\ walletUsers[a] = q.walletUser
                /\ q.data = Counters(walletUsers[a])
                /\ q.data.researchUsed = Grants(a, "research")
                /\ q.data.chatUsed = Grants(a, "chat")

C10_Witness ==
    \E r \in Reqs :
        /\ req[r].op = "register" /\ req[r].pc = "done" /\ req[r].message = MsgAlready
        /\ req[r].signature = "invalid"
        /\ req[r].data.researchUsed >= 1
        /\ req[r].data.chatUsed >= 2

\* -- premium claims
\* The ledger events of key k no older than one hour at time t.
RecentEvents(k, t) ==
    LET recent == {e \in BagToSet(apiUsage) : e.apiKeyId = k /\ t - e.createdAt <= 3600}
    IN  BagCardinality([e \in recent |-> CopiesIn(e, apiUsage)])

\* The grants of key k less than one hour old at time t.
RecentGrants(k, t) ==
    LET recent == {g \in BagToSet(grantLog) : g.apiKeyId = k /\ t - g.at < 3600}
    IN  BagCardinality([g \in recent |-> CopiesIn(g, grantLog)])

CeilingOf(k) == IF apiKeys[k].type = "RESEARCH" THEN 100 ELSE 200

\* C8: a call that presents a PREMIUM key is denied with 'Rate limit
\* exceeded' if and only if the ledger holds at least the ceiling (100
\* research, 200 chat) events of that key with createdAt >= now - 3600 s at
\* the time of the count, and goes on to the grant otherwise; so a denied
\* call is granted again once enough events have left the window.
C8_RateLimitIffWindowFull ==
    [][\A r \in Reqs, k \in KeyIds :
         /\ (req[r].pc = "find" /\ Presents(req[r], k) /\ req'[r] # req[r]) =>
                req'[r].pc = "count" /\ req'[r].key = k
         /\ (req[r].pc = "count" /\ req[r].key = k /\ req'[r] # req[r]) =>
                IF RecentEvents(k, now) >= CeilingOf(k)
                THEN /\ req'[r].pc = "done" /\ req'[r].status = 429
                     /\ req'[r].error = ErrRateLimit
                     /\ apiKeys' = apiKeys
                ELSE /\ req'[r].pc = "update" /\ req'[r].error # ErrRateLimit
                     /\ verdicts' = verdicts]_vars

\* A call denied at the ceiling, and the next call with the same key granted
\* once the events have left the window.
C8_Witness ==
    \E k \in KeyIds :
        /\ Len(verdicts[k]) = KeyCeiling(k) + 2
        /\ verdicts[k][KeyCeiling(k) + 1] = "rate_limit"
        /\ verdicts[k][KeyCeiling(k) + 2] = "granted"
        /\ RecentEvents(k, now) = 0

\* C9: for a PREMIUM key whose requests run one after another the number of
\* requests granted within the trailing 3600 s never exceeds the ceiling (100
\* research, 200 chat), whatever happens to each request after the grant.
C9_GrantsWithinCeiling ==
    \A k \in KeyIds : RecentGrants(k, now) <= CeilingOf(k)

\* -- registration claims
\* C11: the registration of a new address whose signature does not verify,
\* because the verifier answers false or because verification throws, is
\* answered 401 'Invalid signature' and creates no wallet record.
C11_UnverifiedRejected ==
    /\ \A a \in DOMAIN walletUsers : walletUsers[a].signatureHash = "valid"
    /\ \A r \in Reqs :
         (/\ req[r].op = "register" /\ req[r].pc = "done"
          /\ req[r].signature \in {"invalid", "undecodable"}
          /\ req[r].message # MsgAlready) =>
             req[r].status = 401 /\ req[r].error = ErrSignature

\* -- credential claims
\* The bearer string of request q does not start with its endpoint's prefix.
Malformed(q) ==
    /\ q.op \in {"research", "chatbot"}
    /\ q.apiKey # NoHeader
    /\ q.apiKey.prefix # (IF q.op = "research" THEN "unrepo_research_"
                          ELSE "unrepo_chatbot_")

\* The stored keys a bearer string presented by request q authenticates as.
Matching(q) ==
    {k \in DOMAIN apiKeys :
        /\ apiKeys[k].key = q.apiKey
        /\ apiKeys[k].isActive
        /\ apiKeys[k].type = (IF q.op = "research" THEN "RESEARCH" ELSE "CHATBOT")}

\* C12: a bearer string without the prefix of the endpoint's capability is
\* rejected ('Invalid API key format') in the step that receives it, with
\* nothing read from storage, and no key, account, wallet or ledger row
\* changes on its account.
C12_MalformedTouchesNothing ==
    [][\A r \in Reqs :
         /\ Malformed(req'[r]) =>
                /\ req'[r].pc = "done" /\ req'[r].error = ErrFormat
                /\ req'[r].key = None /\ req'[r].walletUser = NoRow
                /\ req'[r].analysis = None
         /\ (Malformed(req[r]) \/ Malformed(req'[r])) =>
                UNCHANGED <<users, apiKeys, apiUsage, walletUsers>>]_vars

\* An issued, active research key presented to the chatbot endpoint.
C12_Witness ==
    \E r \in Reqs :
        /\ Malformed(req[r]) /\ req[r].pc = "done"
        /\ req[r].op = "chatbot"
        /\ req[r].apiKey = apiKeys["k1"].key /\ apiKeys["k1"].isActive

\* C13: a well-formed bearer string authenticates only as a stored key with
\* exactly that token, isActive = true and the type of the endpoint; when
\* there is none the request is rejected ('Invalid or inactive API key') and
\* no key row and no ledger row changes.
C13_OnlyActiveMatchingKey ==
    [][\A r \in Reqs :
         /\ req[r].key # None => req[r].key \in Matching(req[r])
         /\ (req[r].pc = "find" /\ req'[r] # req[r]) =>
                IF Matching(req[r]) = {}
                THEN /\ req'[r].pc = "done" /\ req'[r].error = ErrInactive
                     /\ req'[r].key = None
                     /\ UNCHANGED <<apiKeys, apiUsage>>
                ELSE req'[r].key \in Matching(req[r]) \/ req'[r].error = ErrFreeLimit
         /\ req[r].error = ErrInactive => UNCHANGED <<apiKeys, apiUsage>>]_vars

\* The token of a stored key that is not active, presented to its endpoint.
C13_Witness ==
    \E r \in Reqs, k \in KeyIds :
        /\ req[r].pc = "done" /\ req[r].error = ErrInactive
        /\ req[r].apiKey = apiKeys[k].key /\ ~apiKeys[k].isActive
        /\ ~Malformed(req[r])
        /\ apiKeys[k].usageCount = 0 /\ apiKeys[k].lastUsedAt = Never

\* -- status claims
CredentialErrors ==
    {ErrKeyRequired, ErrCredRequired, ErrFormat, ErrInactive, ErrWalletUnregistered}

QuotaErrors ==
    {ErrFreeLimit, ErrRateLimit, ErrChatLimit, ErrResearchLimit, ErrUsageChatLimit}

BodyErrors == {ErrRepoRequired, ErrRepoFormat, ErrMessageRequired}

\* C14: a research or chatbot request rejected for a missing or invalid
\* credential (none, malformed prefix, unknown or inactive key, unregistered
\* wallet) is answered 401.
C14_CredentialRejected401 ==
    \A r \in Reqs :
        (/\ req[r].op \in {"research", "chatbot"} /\ req[r].pc = "done"
         /\ req[r].error \in CredentialErrors) =>
            req[r].status = 401

\* C15: a request denied because a quota or a rate limit is exhausted is
\* answered 429, on the research endpoint, the chatbot endpoint and
\* POST /wallet/usage.
C15_QuotaDenied429 ==
    \A r \in Reqs :
        (req[r].pc = "done" /\ req[r].error \in QuotaErrors) => req[r].status = 429

\* C16: a request answered for a missing field or a malformed repository URL
\* is answered 400 with nothing read from storage and nothing written: no
\* key row and no wallet row was looked up, so no counter was incremented.
C16_BodyRejectedFirst ==
    \A r \in Reqs :
        (req[r].pc = "done" /\ req[r].error \in BodyErrors) =>
            /\ req[r].status = 400
            /\ req[r].key = None
            /\ req[r].walletUser = NoRow

\* -- ordering claims
Last(seq) == seq[Len(seq)]

\* Request q has reached its calls to GitHub or to the analysis provider.
ExternalStage(q) ==
    /\ q.op \in {"research", "chatbot"}
    /\ \/ q.pc \in {"github", "ai", "log"}
       \/ q.analysis # None
       \/ q.error \in {ErrRepoNotFound, ErrUpstream}

\* The quota decision of request q was Allow and its increment is stored.
Committed(q) ==
    IF q.key # None
    THEN /\ verdicts[q.key] # <<>> /\ Last(verdicts[q.key]) = "granted"
         /\ apiKeys[q.key].usageCount = CountOf(verdicts[q.key], "granted")
         /\ apiKeys[q.key].lastUsedAt # Never
    ELSE /\ q.walletAddress \in DOMAIN walletUsers
         /\ q.walletUser # NoRow
         /\ wverdicts[q.walletAddress]["chat"] # <<>>
         /\ Last(wverdicts[q.walletAddress]["chat"]) \in {"granted", "holder_granted"}
         /\ walletUsers[q.walletAddress] = Charged(q.walletUser, "chat")

\* C17: a research or chat request calls GitHub or the analysis provider
\* only after its quota decision was Allow and its increment was stored; a
\* request that failed authentication or was denied quota has made no such
\* call.
C17_ExternalAfterCommit ==
    \A r \in Reqs :
        /\ ExternalStage(req[r]) => Committed(req[r])
        /\ req[r].error \in CredentialErrors \cup QuotaErrors =>
              ~ExternalStage(req[r]) /\ req[r].pc = "done"

\* A wallet-authenticated chat about to call the provider, after a research
\* request that was granted.
C17_Witness ==
    \E r \in Reqs :
        /\ WalletPath(req[r]) /\ req[r].pc = "ai"
        /\ walletUsers[req[r].walletAddress].chatUsed = 1
        /\ apiKeys["k1"].usageCount = 1

\* -- ledger claims
\* Calls granted so far on the wallet path.
WalletGrants ==
    LET a == CHOOSE x \in Addresses : TRUE
    IN  Grants(a, "research") + Grants(a, "chat")

\* C18: once every request is answered, the ledger holds exactly one
\* UsageEvent for every call the quota check granted, on the key path and on
\* the wallet path.
C18_OneEventPerGrant ==
    Quiet => BagCardinality(apiUsage) = BagCardinality(grantLog) + WalletGrants

\* C19: a request whose analysis or chat result was computed and whose ledger
\* write failed is still answered with the success response.
C19_LedgerFailureNotSurfaced ==
    \A r \in Reqs :
        (/\ req[r].pc = "done" /\ req[r].analysis # None
         /\ req[r].error # ErrChatSave) =>
            req[r].status = 200 /\ req[r].error = None

\* C20: the call of the analysis provider, failed or not, never ends a
\* granted research or chat request with an error: the request goes on with
\* a result or with the placeholder string, and a request that carries the
\* placeholder is answered 200 unless a storage write after it failed.
C20_ProviderFailureDegrades ==
    [][\A r \in Reqs :
         /\ (req[r].pc = "ai" /\ req'[r] # req[r]) =>
                /\ req'[r].error = None
                /\ req'[r].analysis \in {"result", "placeholder", "absent"}
                /\ \/ req'[r].pc = "log"
                   \/ req'[r].pc = "done" /\ req'[r].status = 200
         /\ (/\ req[r].analysis = "placeholder" /\ req[r].pc = "done"
             /\ req[r].error \notin {ErrStorage, ErrChatSave}) =>
                req[r].status = 200 /\ req[r].error = None]_vars

\* A research request answered 200 with the placeholder as its analysis.
C20_Witness ==
    \E r \in Reqs :
        /\ req[r].op = "research" /\ req[r].pc = "done" /\ req[r].status = 200
        /\ req[r].analysis = "placeholder"
        /\ apiKeys[req[r].key].usageCount = 1
        /\ BagCardinality(apiUsage) = 1

\* -- tier claims
\* C21: the tier of a key is taken in each request from the account flags
\* stored when the key is looked up: the request is treated as PREMIUM (no
\* lifetime cap, hourly ceiling) iff paymentVerified or isTokenHolder holds
\* then, and as FREE (denied at usageCount >= 5) otherwise, whatever the
\* flags were in earlier requests.
C21_TierReadEachRequest ==
    [][\A r \in Reqs, k \in KeyIds :
         (req[r].pc = "find" /\ req'[r] # req[r] /\ k \in Matching(req[r])) =>
            LET account == users[apiKeys[k].userId]
            IN  IF account.paymentVerified \/ account.isTokenHolder
                THEN /\ req'[r].pc = "count" /\ req'[r].premium
                     /\ req'[r].key = k /\ req'[r].error = None
                ELSE IF apiKeys[k].usageCount >= 5
                THEN req'[r].pc = "done" /\ req'[r].error = ErrFreeLimit
                ELSE /\ req'[r].pc = "update" /\ ~req'[r].premium
                     /\ req'[r].key = k]_vars

\* A key denied at the cap, granted once the account is premium, and denied
\* again after both flags are cleared.
C21_Witness ==
    \E k \in KeyIds :
        /\ Len(verdicts[k]) = 8
        /\ verdicts[k][6] = "free_limit"
        /\ verdicts[k][7] = "granted"
        /\ verdicts[k][8] = "free_limit"
        /\ apiKeys[k].usageCount = 6
        /\ \A u \in UserIds : ~users[u].paymentVerified /\ ~users[u].isTokenHolder

\* -- monotonicity claims
\* C22: quota is consumed on grant and never given back: no step lowers
\* usageCount of a stored key or researchUsed or chatUsed of a wallet, or
\* removes a wallet, and a request that fails after its grant (400, 404,
\* 500) leaves every counter at the number of calls granted.
C22_CountersNeverDecrease ==
    [][/\ \A k \in DOMAIN apiKeys :
            k \in DOMAIN apiKeys' => apiKeys'[k].usageCount >= apiKeys[k].usageCount
       /\ \A a \in DOMAIN walletUsers :
            /\ a \in DOMAIN walletUsers'
            /\ walletUsers'[a].researchUsed >= walletUsers[a].researchUsed
            /\ walletUsers'[a].chatUsed >= walletUsers[a].chatUsed
       /\ \A k \in DOMAIN apiKeys :
            apiKeys[k].usageCount = CountOf(verdicts[k], "granted")
       /\ \A a \in DOMAIN walletUsers :
            /\ walletUsers[a].researchUsed = Grants(a, "research")
            /\ walletUsers[a].chatUsed = Grants(a, "chat")]_vars

\* A granted research request answered 404, and a wallet registered again
\* after it was charged.
C22_Witness ==
    /\ \E r \in Reqs :
         /\ req[r].op = "register" /\ req[r].pc = "done" /\ req[r].message = MsgAlready
         /\ walletUsers[req[r].walletAddress].chatUsed = 1
    /\ apiKeys["k1"].usageCount = 1
    /\ BagCardinality(apiUsage) = 0

\* -- key management claims
TokensIn(q) == {row.key : row \in {x \in q.rows : "key" \in DOMAIN x}}

\* C23: the token of an issued key is returned exactly once, by the call
\* that generates it; the responses of the key listing, the usage listing
\* and the deletion carry no token.
C23_TokenReturnedOnce ==
    \A r \in Reqs :
        /\ (req[r].op = "generate" /\ req[r].pc = "done" /\ req[r].status = 200) =>
              Cardinality(TokensIn(req[r])) = 1
        /\ req[r].op \in {"list", "keyusage", "delete"} => TokensIn(req[r]) = {}

\* C24: a key record is never removed: after every step every stored key is
\* still stored, and a successful removal leaves the record with its
\* usageCount and the active flag false.
C24_KeyNeverRemoved ==
    [][\A k \in DOMAIN apiKeys :
          /\ k \in DOMAIN apiKeys'
          /\ \A r \in Reqs :
               (req[r].pc = "delete" /\ req[r].key = k /\ req'[r].status = 200) =>
                  /\ ~apiKeys'[k].isActive
                  /\ apiKeys'[k].usageCount = apiKeys[k].usageCount]_vars

\* C25: the step that removes a key changes no account and no wallet, and
\* every other key is stored after it exactly as before; the account of
\* every stored key exists.
C25_DeleteLeavesRest ==
    [][/\ \A r \in Reqs :
            (req[r].pc = "delete" /\ req'[r] # req[r]) =>
               /\ users' = users
               /\ walletUsers' = walletUsers
               /\ \A k \in DOMAIN apiKeys \ {req[r].key} :
                    k \in DOMAIN apiKeys' /\ apiKeys'[k] = apiKeys[k]
       /\ \A k \in DOMAIN apiKeys' : apiKeys'[k].userId \in DOMAIN users']_vars

\* One key of the account was removed after the other had been used.
C25_Witness ==
    \E r \in Reqs :
        /\ req[r].op = "delete" /\ req[r].pc = "done" /\ req[r].status = 200
        /\ req[r].key = "k1" /\ "k1" \notin DOMAIN apiKeys
        /\ "k2" \in DOMAIN apiKeys /\ apiKeys["k2"].usageCount = 1
        /\ apiKeys["k2"].userId \in DOMAIN users

PrefixOf(type) == IF type = "RESEARCH" THEN ResearchPrefix ELSE ChatbotPrefix

PrefixMatches(keys) ==
    \A k \in DOMAIN keys :
        /\ keys[k].type \in {"RESEARCH", "CHATBOT"}
        /\ keys[k].key.prefix = PrefixOf(keys[k].type)

\* C27: in every state the prefix of the token of every stored key is the
\* one of its stored type, and no step changes the type or the token of a
\* key that is stored before and after it.
C27_PrefixMatchesType ==
    [][/\ PrefixMatches(apiKeys)
       /\ PrefixMatches(apiKeys')
       /\ \A k \in DOMAIN apiKeys \cap DOMAIN apiKeys' :
            /\ apiKeys'[k].type = apiKeys[k].type
            /\ apiKeys'[k].key = apiKeys[k].key]_vars

\* A key of each kind was created by the service and the chatbot one used.
C27_Witness ==
    \E k \in DOMAIN apiKeys \ KeyIds, g \in DOMAIN apiKeys \ KeyIds :
        /\ apiKeys[k].type = "CHATBOT" /\ apiKeys[k].usageCount = 1
        /\ apiKeys[k].key = generateApiKey("CHATBOT", k)
        /\ apiKeys[g].type = "RESEARCH"
        /\ apiKeys[g].key = generateApiKey("RESEARCH", g)

\* -- credential claims of the research and analysis routes
\* C26: a research call that carries only the address of a registered wallet
\* that is a token holder or has researchUsed below researchLimit is not
\* turned away for its missing key.
C26_ResearchAcceptsWallet ==
    \A r \in Reqs :
        LET q == req[r]
        IN  (/\ q.op = "research" /\ q.apiKey = NoHeader
             /\ q.walletAddress \in DOMAIN walletUsers
             /\ \/ walletUsers[q.walletAddress].isTokenHolder
                \/ walletUsers[q.walletAddress].researchUsed
                      < walletUsers[q.walletAddress].researchLimit)
            => ~(q.pc = "done" /\ q.status = 401)

\* C29: a request is at the call of the analysis or chat model, or past it,
\* only if a key or a wallet was authenticated for it and its quota decision
\* was Allow.
C29_ModelCallAfterQuota ==
    \A r \in Reqs :
        (\/ req[r].pc \in {"ai", "amodel"}
         \/ req[r].analysis # None
         \/ req[r].error = "Failed to analyze repository with AI")
            => /\ req[r].key # None \/ req[r].walletUser # NoRow
               /\ Committed(req[r])

\* -- ledger visibility
\* C28: the step in which a granted key-authenticated request is answered
\* 200 adds its UsageEvent to the ledger; no step takes an event out of the
\* ledger; and the rolling-window count of a request is taken over the whole
\* ledger as it is at that moment, so it includes the event of every request
\* answered before.
C28_EventVisibleBeforeResponse ==
    [][/\ \A r \in Reqs :
            (/\ req[r].key # None /\ req[r].pc # "done"
             /\ req'[r].pc = "done" /\ req'[r].status = 200) =>
               CopiesIn(UsageEvent(req[r]), apiUsage')
                  = CopiesIn(UsageEvent(req[r]), apiUsage) + 1
       /\ \A e \in BagToSet(apiUsage) : CopiesIn(e, apiUsage') >= CopiesIn(e, apiUsage)
       /\ \A r \in Reqs :
            (req[r].pc = "count" /\ req'[r] # req[r]) =>
               (req'[r].error = ErrRateLimit)
                  = (RecentEvents(req[r].key, now) >= EndpointCeiling(req[r].op))]_vars

\* A request answered half an hour in wrote the event that filled the
\* window, and the next request with the same key is denied by it.
C28_Witness ==
    \E r \in Reqs, k \in KeyIds :
        /\ now = TickStep
        /\ req[r].key = k /\ req[r].pc = "done" /\ req[r].error = ErrRateLimit
        /\ CopiesIn([userId |-> apiKeys[k].userId, apiKeyId |-> k,
                     endpoint |-> EndpointPath(KeyOp(k)), createdAt |-> TickStep],
                    apiUsage) = 1
        /\ RecentEvents(k, now) = KeyCeiling(k)

\* -- frame of the quota decision
DenialErrors == QuotaErrors \cup {ErrInactive, ErrWalletUnregistered}

\* C30: a quota decision that denies (limit reached, rate limit, unknown
\* key, unregistered wallet) leaves the key table, the wallet table and the
\* ledger as they were; a grant by key adds exactly 1 to usageCount of that
\* key and changes no other row; a grant to a wallet that is no token holder
\* adds exactly 1 to the counter of the call's capability and leaves the
\* other counter, the limits and the key table as they were.
C30_DenialChangesNothing ==
    [][\A r \in Reqs :
         /\ (/\ req[r].pc \in {"find", "count", "wfind", "ufind"}
             /\ req'[r].pc = "done") =>
               /\ req'[r].error \in DenialErrors
               /\ apiKeys' = apiKeys /\ walletUsers' = walletUsers
               /\ apiUsage' = apiUsage
         /\ (req[r].pc = "update" /\ req'[r] # req[r]) =>
               /\ apiKeys'[req[r].key].usageCount = apiKeys[req[r].key].usageCount + 1
               /\ \A k \in DOMAIN apiKeys \ {req[r].key} : apiKeys'[k] = apiKeys[k]
               /\ walletUsers' = walletUsers /\ apiUsage' = apiUsage
         /\ (/\ req[r].pc \in {"wupdate", "uupdate"} /\ req'[r] # req[r]
             /\ ~walletUsers[req[r].walletAddress].isTokenHolder) =>
               LET a == req[r].walletAddress
                   t == IF req[r].pc = "wupdate" THEN "chat" ELSE req[r].type
               IN  /\ walletUsers'[a].chatUsed =
                         walletUsers[a].chatUsed + (IF t = "chat" THEN 1 ELSE 0)
                   /\ walletUsers'[a].researchUsed =
                         walletUsers[a].researchUsed + (IF t = "research" THEN 1 ELSE 0)
                   /\ walletUsers'[a].chatLimit = walletUsers[a].chatLimit
                   /\ walletUsers'[a].researchLimit = walletUsers[a].researchLimit
                   /\ apiKeys' = apiKeys /\ apiUsage' = apiUsage]_vars

\* A wallet at its chat limit was denied a chat and then granted its one
\* research call, and a key at its limit was never granted more.
C30_Witness ==
    \E r \in Reqs, a \in DOMAIN walletUsers :
        /\ req[r].op = "usage" /\ req[r].type = "research"
        /\ req[r].pc = "done" /\ req[r].status = 200 /\ req[r].walletAddress = a
        /\ walletUsers[a].researchUsed = 1
        /\ walletUsers[a].chatUsed = NewChatLimit
        /\ Len(wverdicts[a]["chat"]) = NewChatLimit + 1
        /\ Last(wverdicts[a]["chat"]) = "denied"

\* -- ledger and counter
EventsOf(k) == apiUsageCount(k, 0)

\* C31: for every key the ledger holds at most usageCount events of that
\* key, also when requests for the same key interleave: a request writes its
\* event only after its own increment is stored.
C31_EventsWithinUsageCount ==
    /\ \A k \in DOMAIN apiKeys : EventsOf(k) <= apiKeys[k].usageCount
    /\ \A r \in Reqs :
         req[r].pc = "log" =>
            /\ req[r].key \in DOMAIN apiKeys
            /\ EventsOf(req[r].key) < apiKeys[req[r].key].usageCount

\* Two requests for the same fresh key ran together and both wrote their
\* event.
C31_Witness ==
    \E k \in KeyIds :
        /\ \A r \in Reqs : req[r].key = k /\ req[r].pc = "done" /\ req[r].status = 200
        /\ EventsOf(k) = 2 /\ apiKeys[k].usageCount = 2

\* -- validation and enforcement
\* C32: for a registered wallet and a type of research or chat, the answer
\* of GET /wallet/validate is valid exactly when POST /wallet/usage of that
\* type, made next, is granted, token holders at their limit included.
C32_ValidateAgreesWithUsage ==
    \A r \in Reqs :
        LET q == req[r]
        IN  (/\ q.op = "validate" /\ q.pc = "done" /\ q.status = 200
             /\ q.walletAddress \in DOMAIN walletUsers
             /\ q.type \in {"research", "chat"})
            => (q.valid = ~usageLimitReached(walletUsers[q.walletAddress], q.type))

\* -- registration race
\* C33: when two registrations of the same unregistered address have both
\* passed the existence check, the first create stores the record with the
\* initial counters, and the second is answered with an error and leaves the
\* record, whatever has happened to it since, as it is; no step removes a
\* record.
C33_RegisterRaceOneRecord ==
    [][/\ \A r \in Reqs :
            (req[r].pc = "rcreate" /\ req'[r] # req[r]) =>
               LET a == req[r].walletAddress
               IN  IF a \in DOMAIN walletUsers
                   THEN /\ walletUsers' = walletUsers
                        /\ req'[r].pc = "done" /\ req'[r].status = 500
                        /\ req'[r].error = ErrRegister
                   ELSE /\ DOMAIN walletUsers' = DOMAIN walletUsers \cup {a}
                        /\ Counters(walletUsers'[a]) =
                              [researchUsed |-> 0, researchLimit |-> NewResearchLimit,
                               chatUsed |-> 0, chatLimit |-> NewChatLimit]
                        /\ \A x \in DOMAIN walletUsers : walletUsers'[x] = walletUsers[x]
       /\ DOMAIN walletUsers \subseteq DOMAIN walletUsers']_vars

\* Both registrations passed the existence check; one stored the record and
\* was answered, the other lost and was answered 500.
C33_Witness ==
    \E a \in DOMAIN walletUsers :
        /\ req["r1"].op = "register" /\ req["r1"].walletAddress = a
        /\ req["r1"].pc = "done" /\ req["r1"].status = 200
        /\ req["r1"].message = MsgRegistered
        /\ req["r2"].op = "register" /\ req["r2"].walletAddress = a
        /\ req["r2"].pc = "done" /\ req["r2"].error = ErrRegister
        /\ calls = 2
        /\ Counters(walletUsers[a]) = Counters(NewWallet("valid"))

\* -- one principal per chat
\* C34: a chatbot request that carries x-api-key, with or without
\* x-wallet-address, changes no wallet record in any of its steps; a chatbot
\* request that carries only x-wallet-address changes no key and no ledger
\* entry, and of the wallet's counters only chatUsed, by one, once.
C34_ChatChargesOnePrincipal ==
    [][\A r \in Reqs :
         (req[r].op = "chatbot" /\ req'[r] # req[r]) =>
            IF req[r].apiKey # NoHeader
            THEN /\ walletUsers' = walletUsers
                 /\ wverdicts' = wverdicts
                 /\ req'[r].walletUser = NoRow
            ELSE /\ apiKeys' = apiKeys /\ apiUsage' = apiUsage
                 /\ verdicts' = verdicts
                 /\ req'[r].key = None
                 /\ \A a \in DOMAIN walletUsers :
                      /\ walletUsers'[a].researchUsed = walletUsers[a].researchUsed
                      /\ walletUsers'[a].chatUsed =
                            walletUsers[a].chatUsed
                               + (IF req[r].pc = "wupdate" /\ a = req[r].walletAddress
                                  THEN 1 ELSE 0)]_vars

\* A chat with both headers, of a registered wallet, was answered: the key
\* was charged and wrote its event, the wallet was not.
C34_Witness ==
    \E r \in Reqs, k \in KeyIds :
        /\ req[r].op = "chatbot" /\ req[r].pc = "done" /\ req[r].status = 200
        /\ req[r].apiKey = apiKeys[k].key /\ req[r].key = k
        /\ req[r].walletAddress \in DOMAIN walletUsers
        /\ apiKeys[k].usageCount = 1 /\ EventsOf(k) = 1
        /\ walletUsers[req[r].walletAddress].chatUsed = 0
        /\ wverdicts[req[r].walletAddress]["chat"] = <<>>

\* -- requests after a removal
PresentsRemoved(q) ==
    /\ q.op \in {"research", "chatbot"}
    /\ q.apiKey \in DeletedTokens

RemovedIsRejected ==
    \A r \in Reqs :
        PresentsRemoved(req[r]) =>
            /\ req[r].pc \in {"find", "done"}
            /\ req[r].key = None
            /\ req[r].pc = "done" => req[r].error \in {ErrInactive, ErrFormat}

\* C35: a key whose removal was answered 200 is no longer stored as an
\* active key; a research or chat request that presents the token of a
\* removed key never gets past the key lookup, ends with 'Invalid or
\* inactive API key' (or the format error of the other endpoint), and none
\* of its steps changes a key or the ledger.
C35_RemovedKeyRejected ==
    [][/\ RemovedIsRejected /\ RemovedIsRejected'
       /\ \A r \in Reqs :
            (req[r].pc = "delete" /\ req'[r].pc = "done" /\ req'[r].status = 200) =>
               \/ req[r].key \notin DOMAIN apiKeys'
               \/ ~apiKeys'[req[r].key].isActive
       /\ \A r \in Reqs :
            (PresentsRemoved(req[r]) /\ req'[r] # req[r]) =>
               /\ apiKeys' = apiKeys /\ apiUsage' = apiUsage
               /\ verdicts' = verdicts /\ grantLog' = grantLog]_vars

\* A key was granted one call, then removed, and the next request with its
\* token was turned away.
C35_Witness ==
    \E r \in Reqs :
        /\ req[r].op = "research" /\ req[r].apiKey = generateApiKey("RESEARCH", "k1")
        /\ req[r].pc = "done" /\ req[r].error = ErrInactive
        /\ "k1" \notin DOMAIN apiKeys
        /\ verdicts["k1"] = <<"granted">>

\* -- listing and enforcement
\* The next verifyApiKey call that presents key k passes the lookup and the
\* free-tier cap.
WouldPassFreeCap(k) ==
    /\ findFirstKey(apiKeys[k].key, apiKeys[k].type) = k
    /\ ~FreeTierExhausted(isPremium(users[apiKeys[k].userId]), apiKeys[k].usageCount)

\* C36: the listing has one row for every active key of the account; for a
\* free account remainingCalls is 5 - usageCount, or 0 when that is
\* negative, and it is positive exactly when the next verifyApiKey call
\* with that key is granted; for a premium account it is null.
C36_ListingAgreesWithCap ==
    [][\A r \in Reqs :
         (/\ req[r].pc = "list" /\ req'[r] # req[r]
          /\ req[r].email \in DOMAIN users) =>
            /\ {row.id : row \in req'[r].rows} = activeKeysOf(req[r].email)
            /\ \A row \in req'[r].rows :
                 IF isPremium(users[req[r].email])
                 THEN row.isPremium /\ row.remainingCalls = -1
                 ELSE /\ ~row.isPremium
                      /\ row.remainingCalls >= 0
                      /\ row.remainingCalls =
                            (IF apiKeys[row.id].usageCount >= 5 THEN 0
                             ELSE 5 - apiKeys[row.id].usageCount)
                      /\ (row.remainingCalls > 0) = WouldPassFreeCap(row.id)]_vars

\* Two requests raced a key past the cap; the listing shows it with no
\* calls left.
C36_Witness ==
    \E r \in Reqs :
        /\ req[r].op = "list" /\ req[r].pc = "done"
        /\ \E row \in req[r].rows :
             /\ row.usageCount = FreeLimit + 1 /\ row.remainingCalls = 0
             /\ ~row.isPremium
        /\ \E row \in req[r].rows : row.usageCount = FreeLimit /\ row.remainingCalls = 0

\* -- token re-verification
LookupFailed(q) == q.lookup.kind \in {"unconfigured", "rpcerror", "thrown"}

\* C37: a balance lookup that fails (no API key, RPC error, exception) is
\* answered like a balance of 0 and raises nothing: the verification goes on
\* with tokenBalance 0, is answered 200, and a registered wallet, token
\* holder or not, is stored with isTokenHolder false and tokenBalance 0.
C37_LookupFailureIsZero ==
    \A r \in Reqs :
        LET q == req[r]
        IN  (q.op = "verifyTokens" /\ LookupFailed(q)) =>
               /\ q.tokenBalance = 0
               /\ ~verifyTokenHolder(q.tokenBalance).isTokenHolder
               /\ q.pc = "done" =>
                     /\ q.status = 200
                     /\ q.walletAddress \in DOMAIN walletUsers =>
                           /\ ~walletUsers[q.walletAddress].isTokenHolder
                           /\ walletUsers[q.walletAddress].tokenBalance = 0

\* A wallet that holds the tokens and was served as a holder is stored as
\* no holder after a verification whose lookup had no API key.
C37_Witness ==
    \E r \in Reqs, a \in DOMAIN walletUsers :
        /\ req[r].op = "verifyTokens" /\ req[r].pc = "done" /\ req[r].walletAddress = a
        /\ req[r].lookup = [kind |-> "unconfigured", amount |-> TOKEN_THRESHOLD]
        /\ wverdicts[a]["chat"] = <<"holder_granted">>
        /\ ~walletUsers[a].isTokenHolder

\* A step of a verify-tokens request in slot r.
VerifyStep(r) ==
    /\ req'[r] # req[r]
    /\ req[r].op = "verifyTokens" \/ req'[r].op = "verifyTokens"

\* C38: POST /wallet/verify-tokens writes only the cached oracle fields: no
\* step of it adds or removes a wallet record or changes a wallet's
\* researchUsed, researchLimit, chatUsed or chatLimit, it touches no other
\* wallet, and its update sets isTokenHolder and tokenBalance of the
\* registered wallet to the oracle's result.
C38_VerifyWritesOracleFields ==
    [][\A r \in Reqs :
          VerifyStep(r) =>
             /\ DOMAIN walletUsers' = DOMAIN walletUsers
             /\ \A a \in DOMAIN walletUsers :
                   /\ Counters(walletUsers'[a]) = Counters(walletUsers[a])
                   /\ a # req[r].walletAddress => walletUsers'[a] = walletUsers[a]
             /\ req[r].pc = "vupdate" =>
                   /\ walletUsers'[req[r].walletAddress].tokenBalance = req[r].tokenBalance
                   /\ walletUsers'[req[r].walletAddress].isTokenHolder
                         = (req[r].tokenBalance >= TOKEN_THRESHOLD)
             /\ req[r].pc # "vupdate" => walletUsers' = walletUsers]_vars

\* A wallet registered without tokens that used its research call is found
\* to hold the tokens: the verification is answered, the holder flag is set
\* and researchUsed is still 1.
C38_Witness ==
    \E r \in Reqs, a \in DOMAIN walletUsers :
        /\ req[r].op = "verifyTokens" /\ req[r].pc = "done" /\ req[r].walletAddress = a
        /\ req[r].lookup = [kind |-> "found", amount |-> TOKEN_THRESHOLD]
        /\ wverdicts[a]["research"] = <<"granted">>
        /\ walletUsers[a].isTokenHolder
        /\ walletUsers[a].researchUsed = 1

\* ------------------------------------------- chatWithRepository (lib/ai.ts)
MaxChatCalls == 2
MaxMessages == 2

\* What determineAIProvider reads of a message: whether a code keyword and a
\* concept keyword occur in it, whether it is shorter than 50 characters and
\* whether it holds a question mark.
Contents ==
    [code : BOOLEAN, concept : BOOLEAN, short : BOOLEAN, question : BOOLEAN]

ChatMessage == [role : {"user", "assistant"}, content : Contents]

Conversations ==
    UNION {[1..n -> ChatMessage] : n \in 0..MaxMessages}

\* ai.ts:140-184.
determineAIProvider(message) ==
    IF message.code /\ ~message.concept THEN "claude"
    ELSE IF message.concept /\ ~message.code THEN "chatgpt"
    ELSE IF message.short \/ message.question THEN "claude"
    ELSE "chatgpt"

ClaudeText == "text of Claude"
ChatGPTText == "text of ChatGPT"
NoIssues == "Analysis complete. No significant issues detected."
Unavailable == "Analysis temporarily unavailable. Please try again."

\* ai.ts:187-210: the last user message chooses the provider; without one
\* it is Claude.
chatWithRepository(r, messages) ==
    /\ Idle(r)
    /\ calls' = calls + 1
    /\ LET userMessages == SelectSeq(messages, LAMBDA m : m.role = "user")
           aiProvider == IF userMessages = <<>> THEN "claude"
                         ELSE determineAIProvider(Last(userMessages).content)
       IN  req' = [req EXCEPT ![r] =
                [IdleReq EXCEPT !.op = "chat", !.messages = messages,
                                !.pc = aiProvider]]
    /\ UNCHANGED_DB /\ UNCHANGED_HIST /\ UNCHANGED now

\* ai.ts:261-284: a text block is returned; any other block and any
\* exception of the call go to chatWithChatGPT with the same messages.
chatWithClaude(r) ==
    /\ req[r].pc = "claude"
    /\ \E outcome \in {"text", "other", "throws"} :
         LET q == [req[r] EXCEPT !.sent = Append(@, [to |-> "claude",
                                                     messages |-> req[r].messages,
                                                     outcome |-> outcome])]
         IN  req' = [req EXCEPT ![r] =
                IF outcome = "text" THEN [q EXCEPT !.pc = "done", !.analysis = ClaudeText]
                ELSE [q EXCEPT !.pc = "chatgpt"]]
    /\ UNCHANGED_DB /\ UNCHANGED_HIST /\ UNCHANGED <<now, calls>>

chatWithChatGPTUncaught(r) ==
    /\ req[r].pc = "chatgpt"
    /\ \E outcome \in {"text", "empty", "throws"} :
         LET q == [req[r] EXCEPT !.sent = Append(@, [to |-> "chatgpt",
                                                     messages |-> req[r].messages,
                                                     outcome |-> outcome])]
         IN  req' = [req EXCEPT ![r] =
                IF outcome = "throws" THEN [q EXCEPT !.pc = "done", !.error = ErrUpstream]
                ELSE [q EXCEPT !.pc = "done",
                               !.analysis = IF outcome = "text" THEN ChatGPTText
                                            ELSE NoIssues]]
    /\ UNCHANGED_DB /\ UNCHANGED_HIST /\ UNCHANGED <<now, calls>>

\* ai.ts:325-344: the content of the first choice, a fixed sentence when it
\* is empty, and the placeholder when the call throws.
chatWithChatGPT(r) ==
    /\ req[r].pc = "chatgpt"
    /\ \E outcome \in {"text", "empty", "throws"} :
         LET q == [req[r] EXCEPT !.sent = Append(@, [to |-> "chatgpt",
                                                     messages |-> req[r].messages,
                                                     outcome |-> outcome])]
         IN  req' = [req EXCEPT ![r] =
                [q EXCEPT !.pc = "done",
                          !.analysis = IF outcome = "text" THEN ChatGPTText
                                       ELSE IF outcome = "empty" THEN NoIssues
                                       ELSE Unavailable]]
    /\ UNCHANGED_DB /\ UNCHANGED_HIST /\ UNCHANGED <<now, calls>>

\* Calls of chatWithRepository made one after another.
ChatNext ==
    \/ /\ Quiet /\ calls < MaxChatCalls
       /\ \E messages \in Conversations : chatWithRepository("r1", messages)
    \/ \E r \in Reqs : chatWithClaude(r)
    \/ \E r \in Reqs : chatWithChatGPT(r)
    \/ \E r \in Reqs : Finish(r)

ChatSpec == Init /\ [][ChatNext]_vars

\* The providers a finished call went to, in order.
Providers(q) == [i \in 1..Len(q.sent) |-> q.sent[i].to]

\* C39: chatWithRepository never raises and always returns a string.  A
\* call routed to Claude whose Claude request fails sends the same messages
\* to ChatGPT; a call whose ChatGPT request fails, directly or as the
\* fallback, returns 'Analysis temporarily unavailable. Please try again.';
\* a call routed to ChatGPT never goes to Claude.
C39_ChatNeverRaises ==
    \A r \in Reqs :
        LET q == req[r]
        IN  (q.op = "chat" /\ q.pc = "done") =>
               /\ q.error = None
               /\ q.analysis \in {ClaudeText, ChatGPTText, NoIssues, Unavailable}
               /\ \A i \in 1..Len(q.sent) : q.sent[i].messages = q.messages
               /\ Providers(q) \in {<<"claude">>, <<"claude", "chatgpt">>, <<"chatgpt">>}
               /\ (q.sent[1].to = "claude" /\ q.sent[1].outcome # "text") =>
                     Providers(q) = <<"claude", "chatgpt">>
               /\ Last(q.sent).outcome = "throws" /\ Last(q.sent).to = "chatgpt" =>
                     q.analysis = Unavailable
               /\ q.sent[1].to = "chatgpt" => Providers(q) = <<"chatgpt">>

\* Claude threw on a two-message conversation, the fallback ChatGPT request
\* threw as well, and the placeholder was returned.
C39_Witness ==
    \E r \in Reqs :
        /\ req[r].op = "chat" /\ req[r].pc = "done"
        /\ Len(req[r].messages) = 2
        /\ Len(req[r].sent) = 2
        /\ req[r].sent[1].outcome = "throws"
        /\ req[r].sent[2].outcome = "throws"
        /\ req[r].analysis = Unavailable

====
